---- MODULE Spec2Model ----
(***************************************************************************)
(* The CONNECT tunnel proxy of niklak/apik (internal/proxy).               *)
(*                                                                         *)
(* Four handlers are modelled, one per version of the package found in    *)
(* the sources:                                                            *)
(*   "http"  HttpProxyConnectHandler  internal/proxy/handler.go            *)
(*   "raw"   ProxyConnectHandle       internal/proxy/helpers.go            *)
(*   "wg"    ProxyConnectHandler      internal/proxy/proxy.go (WaitGroup)  *)
(*   "ctx"   ProxyConnectHandler      unnamed/part_001 (context.Cancel)    *)
(*                                                                         *)
(* Connections are entries of a heap indexed by descriptor; a session      *)
(* holds the descriptors of its client and target connection and each      *)
(* copy goroutine holds the descriptors it was started with.  The peers    *)
(* (client, target) are the environment: they send, half-close (FIN) or    *)
(* reset (RST) at any time.  A write on a connection completes in one step *)
(* (it succeeds or fails); a read blocks until data, EOF, a reset or a     *)
(* local Close is there.                                                   *)
(***************************************************************************)
EXTENDS Integers, Sequences, FiniteSets, TLC

\* ------------------------------------------------------------------ bounds
\* payload bytes each peer may send into a tunnel
MaxSend == 2

Sess == {1, 2}
Conns == 1..(2 * Cardinality(Sess))
Dirs == {"c2t", "t2c"}
HandlerVariants == {"http", "wg", "ctx"}
Variants == HandlerVariants \cup {"raw"}

\* ------------------------------------------------------ net/http constants
MethodConnect == "CONNECT"

\* http.StatusText for the codes the proxy uses
StatusText(code) ==
  CASE code = 200 -> "OK"
    [] code = 405 -> "Method Not Allowed"
    [] code = 500 -> "Internal Server Error"
    [] code = 503 -> "Service Unavailable"
    [] OTHER -> ""

ErrClosed == "use of closed network connection"
ErrReset == "connection reset by peer"

\* ------------------------------------------------------------ stream items
\* Everything that travels on a connection is an item: a token of the
\* request line (val is its text), a payload byte of a peer (tagged with the
\* session and side that sent it) or a status line (val is its full text).
Tok(v) == [kind |-> "tok", sess |-> 0, side |-> "c", val |-> v]
Data(s, side, i) == [kind |-> "data", sess |-> s, side |-> side, val |-> "d" \o ToString(i)]
StatusItem(text) == [kind |-> "status", sess |-> 0, side |-> "p", val |-> text]

Payload(s, side) == [i \in 1..MaxSend |-> Data(s, side, i)]

NoReq == [method |-> "<nil>", authority |-> "", proto |-> "", major |-> 0, minor |-> 0]

\* requests as the net/http server hands them to a handler
Protos == {<<"HTTP/1.0", 1, 0>>, <<"HTTP/1.1", 1, 1>>}
HandlerRequests ==
  {[method |-> m, authority |-> "h:1", proto |-> p[1], major |-> p[2], minor |-> p[3]] :
     m \in {MethodConnect, "GET"}, p \in Protos}

\* what a client may write on a raw socket before its payload
RequestLines ==
  { <<Tok("CONNECT"), Tok(" "), Tok("h:1"), Tok(" "), Tok("HTTP/1.1"), Tok("\r"), Tok("\n")>>,
    <<Tok("GET"), Tok(" "), Tok("h:1"), Tok(" "), Tok("HTTP/1.0"), Tok("\n")>>,
    <<Tok("CONNECT"), Tok(" "), Tok("h:1"), Tok("\n")>>,
    <<>> }

\* ======================================================================
\* The HTTP client: package request (request.go), package reqopt (reqopt.go)
\* and Client (client.go).
\* ======================================================================
MaxOpts == 3        \* options given to one NewRequest call
MaxClientOpts == 2  \* options given to one New call
MaxCallOpts == 2    \* options of the request in the specification of the calls
MaxSends == 2       \* calls of Do, Fetch and JSON

ReqIds == {1, 2}
Keys == {"j", "k"}
Vals == {"v1", "v2"}
\* sort.Strings order of the keys, as url.Values.Encode walks them
SortedKeys == <<"j", "k">>
KeyOrders == {<<"j", "k">>, <<"k", "j">>}

defaultTimeout == 60

ErrUnsupportedBodyType == "unsupported body type"
ErrNotExist == "open: no such file or directory"
ErrUnsupportedScheme == "unsupported protocol scheme"
ErrDial == "dial tcp: connection refused"
ErrDecode == "json: cannot unmarshal"
ErrBodyRead == "unexpected EOF"

\* ------------------------------------------------------------ url.Values
EmptyValues == [k \in Keys |-> <<>>]
ValuesLen(m) == Cardinality({k \in Keys : m[k] # <<>>})
ValuesAdd_Prepend(m, k, v) == [m EXCEPT ![k] = <<v>> \o @]
ValuesAdd(m, k, v) == [m EXCEPT ![k] = Append(@, v)]
ValuesSet(m, k, v) == [m EXCEPT ![k] = <<v>>]

\* Encode: "k=v" pairs joined by "&", keys sorted, the values of a key in
\* their order; the text is a sequence of tokens
RECURSIVE EncodeKey(_, _)
EncodeKey(k, vs) ==
  IF vs = <<>> THEN <<>> ELSE <<"&", k, "=", Head(vs)>> \o EncodeKey(k, Tail(vs))

RECURSIVE EncodeKeys(_, _)
EncodeKeys(m, ks) ==
  IF ks = <<>> THEN <<>> ELSE EncodeKey(Head(ks), m[Head(ks)]) \o EncodeKeys(m, Tail(ks))

ValuesEncode(m) ==
  LET text == EncodeKeys(m, SortedKeys) IN IF text = <<>> THEN <<>> ELSE Tail(text)

\* url.ParseQuery, as the server reads a query or a form body
RECURSIVE ParseQuery(_)
ParseQuery(text) ==
  IF Len(text) < 3 THEN EmptyValues
  ELSE LET rest == IF Len(text) > 4 THEN SubSeq(text, 5, Len(text)) ELSE <<>>
           m == ParseQuery(rest)
       IN [m EXCEPT ![text[1]] = <<text[3]>> \o @]

\* --------------------------------------------------------------- cookies
Cookie(name, value) == [name |-> name, value |-> value]
RequestCookie == Cookie("k", "request-cookie")
ClientCookie == Cookie("k", "client-cookie")
ServerCookie == Cookie("s", "server-cookie")

\* http.Request.AddCookie: "name=value" appended to the Cookie header
AddCookieHeader(h, c) == [h EXCEPT !.Cookie = Append(@, c)]

RECURSIVE AddCookiesHeader(_, _)
AddCookiesHeader(h, cs) ==
  IF cs = <<>> THEN h ELSE AddCookiesHeader(AddCookieHeader(h, Head(cs)), Tail(cs))

\* ------------------------------------------------------ request.Request
\* a file field: Source is "" or a path, Body is the value given to SetFileBody
NoBody == [type |-> "nil", data |-> ""]
FileBodies ==
  {[type |-> "string", data |-> "text"], [type |-> "[]byte", data |-> "bytes"],
   [type |-> "io.Reader", data |-> "stream"], [type |-> "int", data |-> "1"]}
Sources == {"test/data/test.txt", "test/data/non-existing.txt"}
\* the files on disk: os.ReadFile of any other path fails
Disk(source) == IF source = "test/data/test.txt" THEN "file content" ELSE ""
Readable(source) == source = "test/data/test.txt"
\* filepath.Base
Base(source) ==
  IF source = "test/data/test.txt" THEN "test.txt"
  ELSE IF source = "test/data/non-existing.txt" THEN "non-existing.txt"
  ELSE source

EmptyHeader == [ContentType |-> "", Cookie |-> <<>>]

\* NewRequest before its options are applied
BlankRequest(rawQuery) ==
  [made |-> TRUE, Method |-> "", Header |-> EmptyHeader, Body |-> "", Form |-> EmptyValues,
   Params |-> EmptyValues, Files |-> <<>>, Cookies |-> <<>>, RawQuery |-> rawQuery,
   JSON |-> ""]

NoRequest == [BlankRequest(<<>>) EXCEPT !.made = FALSE]

\* queries a destination URL may carry
UrlQueries == {<<>>, <<"j", "=", "v0">>}

\* ---------------------------------------------------------------- reqopt
AddParam(rq, k, v) == [rq EXCEPT !.Params = ValuesAdd(@, k, v)]
SetParam(rq, k, v) == [rq EXCEPT !.Params = ValuesSet(@, k, v)]
AddFormField(rq, k, v) == [rq EXCEPT !.Form = ValuesAdd(@, k, v)]
SetFormField(rq, k, v) == [rq EXCEPT !.Form = ValuesSet(@, k, v)]
SetBody(rq, body) == [rq EXCEPT !.Body = body]
SetFile(rq, fieldname, source) ==
  [rq EXCEPT !.Files = Append(@, [Fieldname |-> fieldname, Filename |-> "",
                                  Source |-> source, Body |-> NoBody])]
SetFileBody(rq, fieldname, filename, body) ==
  [rq EXCEPT !.Files = Append(@, [Fieldname |-> fieldname, Filename |-> filename,
                                  Source |-> "", Body |-> body])]
AddCookie(rq, cookie) == [rq EXCEPT !.Cookies = Append(@, cookie)]
SetCookies(rq, cookies) == [rq EXCEPT !.Cookies = cookies]
SetJSON(rq, entity) == [rq EXCEPT !.JSON = entity]

\* an option value: what a reqopt function was called with
Opt(op, k, v) == [op |-> op, k |-> k, v |-> v, body |-> NoBody]

ParamOptions == {Opt(op, k, v) : op \in {"AddParam", "SetParam"}, k \in Keys, v \in Vals}
FormOptions == {Opt(op, k, v) : op \in {"AddFormField", "SetFormField"}, k \in Keys, v \in Vals}
FileOptions ==
  {Opt("SetFile", "file", src) : src \in Sources}
    \cup {[Opt("SetFileBody", "file", "file.txt") EXCEPT !.body = b] : b \in FileBodies}
BodyOptions == {Opt("SetBody", "", "raw bytes"), Opt("SetJSON", "", "{\"k\":\"v\"}")}
CookieOptions == {Opt("AddCookie", "", ""), Opt("SetCookies", "", "")}
RequestOptions == ParamOptions \cup FormOptions \cup FileOptions \cup BodyOptions \cup CookieOptions

ApplyOption(rq, o) ==
  CASE o.op = "AddParam" -> AddParam(rq, o.k, o.v)
    [] o.op = "SetParam" -> SetParam(rq, o.k, o.v)
    [] o.op = "AddFormField" -> AddFormField(rq, o.k, o.v)
    [] o.op = "SetFormField" -> SetFormField(rq, o.k, o.v)
    [] o.op = "SetBody" -> SetBody(rq, o.v)
    [] o.op = "SetJSON" -> SetJSON(rq, o.v)
    [] o.op = "SetFile" -> SetFile(rq, o.k, o.v)
    [] o.op = "SetFileBody" -> SetFileBody(rq, o.k, o.v, o.body)
    [] o.op = "AddCookie" -> AddCookie(rq, RequestCookie)
    [] o.op = "SetCookies" -> SetCookies(rq, <<RequestCookie>>)

RECURSIVE ApplyOptions(_, _)
ApplyOptions(rq, opts) ==
  IF opts = <<>> THEN rq ELSE ApplyOptions(ApplyOption(rq, Head(opts)), Tail(opts))

\* the sequences of at most n elements of S
RECURSIVE SeqsUpTo(_, _)
SeqsUpTo(S, n) ==
  IF n = 0 THEN {<<>>}
  ELSE LET shorter == SeqsUpTo(S, n - 1)
       IN shorter \cup {Append(q, x) : q \in shorter, x \in S}

\* ---------------------------------------------------------------- errors
\* an error is its Unwrap chain, outermost first; nil is the empty chain
NoErr == <<>>
Err(msg) == <<msg>>
Errorf(msg, inner) == <<msg>> \o inner
ErrorsIs(err, target) == \E i \in 1..Len(err) : err[i] = target

\* --------------------------------------------------- FileField.Write
\* result: the error, the field as Write leaves it, the part written
FileFieldWrite(f) ==
  LET unreadable == f.Source # "" /\ ~Readable(f.Source)
      g == IF f.Source # "" /\ ~unreadable
             THEN [f EXCEPT !.Body = [type |-> "[]byte", data |-> Disk(f.Source)],
                            !.Filename = Base(f.Source)]
             ELSE f
      supported == g.Body.type \in {"string", "[]byte", "io.Reader"}
  IN [err |-> IF unreadable THEN Err(ErrNotExist)
              ELSE IF ~supported
                THEN Errorf(ErrUnsupportedBodyType \o ": " \o g.Body.type, Err(ErrUnsupportedBodyType))
              ELSE NoErr,
      \* io.Copy drains a reader
      file |-> IF g.Body.type = "io.Reader" THEN [g EXCEPT !.Body.data = ""] ELSE g,
      part |-> [kind |-> "file", name |-> g.Fieldname, filename |-> g.Filename,
                content |-> g.Body.data]]

\* the loop over r.Files: stops at the first error.  w is what Write did
\* with the first file, rest what the loop did with the files after it.
WrittenThen(w, rest) ==
  [err |-> rest.err, files |-> <<w.file>> \o rest.files, parts |-> <<w.part>> \o rest.parts]

RECURSIVE WriteFiles(_)
WriteFrom(w, files) ==
  IF w.err # NoErr
    THEN [err |-> w.err, files |-> <<w.file>> \o Tail(files), parts |-> <<>>]
    ELSE WrittenThen(w, WriteFiles(Tail(files)))

WriteFiles(files) ==
  IF files = <<>> THEN [err |-> NoErr, files |-> <<>>, parts |-> <<>>]
  ELSE WriteFrom(FileFieldWrite(Head(files)), files)

\* the loop over r.Form: writer.WriteField per value; the keys come in the
\* order of the map iteration
RECURSIVE FieldParts(_, _)
FieldParts(m, order) ==
  IF order = <<>> THEN <<>>
  ELSE [i \in 1..Len(m[Head(order)]) |->
          [kind |-> "field", name |-> Head(order), filename |-> "", content |-> m[Head(order)][i]]]
       \o FieldParts(m, Tail(order))

\* a request body: enc names the encoding, and one of parts, text, data holds it
BodyOf(enc, parts, text, data) == [enc |-> enc, parts |-> parts, text |-> text, data |-> data]
NoBodyReader == BodyOf("none", <<>>, <<>>, "")

MultipartContentType == "multipart/form-data; boundary=b"

\* writeMultiPartFormData once the files are written (w)
MultiPartBody(rq, order, w) ==
  IF w.err # NoErr
    THEN [err |-> w.err, body |-> NoBodyReader, rq |-> [rq EXCEPT !.Files = w.files]]
    ELSE [err |-> NoErr,
          body |-> BodyOf("multipart", w.parts \o FieldParts(rq.Form, order), <<>>, ""),
          rq |-> [rq EXCEPT !.Files = w.files, !.Header.ContentType = MultipartContentType]]

writeMultiPartFormData(rq, order) == MultiPartBody(rq, order, WriteFiles(rq.Files))

writeJSON(rq) ==
  [err |-> NoErr, body |-> BodyOf("json", <<>>, <<>>, rq.JSON \o "\n"),
   rq |-> [rq EXCEPT !.Header.ContentType = "application/json"]]

writeForm(rq) ==
  [err |-> NoErr, body |-> BodyOf("form", <<>>, ValuesEncode(rq.Form), ""),
   rq |-> [rq EXCEPT !.Header.ContentType = "application/x-www-form-urlencoded"]]

\* the precedence among the body encodings with Form and JSON exchanged
ChooseBody_JSONFirst(rq, order) ==
  IF Len(rq.Files) > 0 THEN writeMultiPartFormData(rq, order)
  ELSE IF rq.JSON # "" THEN writeJSON(rq)
  ELSE IF ValuesLen(rq.Form) > 0 THEN writeForm(rq)
  ELSE IF rq.Body # "" THEN [err |-> NoErr, body |-> BodyOf("raw", <<>>, <<>>, rq.Body), rq |-> rq]
  ELSE [err |-> NoErr, body |-> NoBodyReader, rq |-> rq]

\* IntoHttpRequest, the if / else-if chain over Files, Form, JSON, Body
ChooseBody(rq, order) ==
  IF Len(rq.Files) > 0 THEN writeMultiPartFormData(rq, order)
  ELSE IF ValuesLen(rq.Form) > 0 THEN writeForm(rq)
  ELSE IF rq.JSON # "" THEN writeJSON(rq)
  ELSE IF rq.Body # "" THEN [err |-> NoErr, body |-> BodyOf("raw", <<>>, <<>>, rq.Body), rq |-> rq]
  ELSE [err |-> NoErr, body |-> NoBodyReader, rq |-> rq]

\* an *http.Request; Header is the map of the Request it was made from
NoHttpRequest == [query |-> <<>>, Header |-> EmptyHeader, body |-> NoBodyReader]

\* IntoHttpRequest: result is the error, the *http.Request and the Request
\* as the conversion leaves it.  req.Header = r.Header shares the map, so the
\* cookies added to req are in r.Header as well.
\* r.URL.RawQuery = r.Params.Encode() when there are parameters
SetRawQuery(rq) ==
  IF ValuesLen(rq.Params) > 0 THEN [rq EXCEPT !.RawQuery = ValuesEncode(rq.Params)] ELSE rq

\* IntoHttpRequest once the body is chosen (b): the request with its cookies
WithHeaderOf(b, h) ==
  [err |-> NoErr,
   raw |-> [query |-> b.rq.RawQuery, Header |-> h, body |-> b.body],
   rq |-> [b.rq EXCEPT !.Header = h]]

HttpRequestOf(b) ==
  IF b.err # NoErr
    THEN [err |-> b.err, raw |-> NoHttpRequest, rq |-> b.rq]
    ELSE WithHeaderOf(b, AddCookiesHeader(b.rq.Header, b.rq.Cookies))

IntoHttpRequest(rq, order) == HttpRequestOf(ChooseBody(SetRawQuery(rq), order))


\* --------------------------------------------------------- http.CookieJar
JarIds == {"std", "j", "hc"}

\* SetCookies of one cookie: a cookie of the same name is replaced in place
JarSetCookie(store, c) ==
  IF \E i \in 1..Len(store) : store[i].name = c.name
    THEN [i \in 1..Len(store) |-> IF store[i].name = c.name THEN c ELSE store[i]]
    ELSE Append(store, c)

RECURSIVE JarSetCookies(_, _)
JarSetCookies(store, cs) ==
  IF cs = <<>> THEN store ELSE JarSetCookies(JarSetCookie(store, Head(cs)), Tail(cs))

\* ----------------------------------------------------------------- Client
\* an *http.Client; ok is FALSE for the nil pointer
NilHttpClient == [ok |-> FALSE, Jar |-> "nil", Timeout |-> 0]
HttpClients == {[ok |-> TRUE, Jar |-> "nil", Timeout |-> 0], [ok |-> TRUE, Jar |-> "hc", Timeout |-> 30]}
BaseUrl == "http://h"
TestTimeout == 5

\* &Client{header: make(http.Header)}
NewClient ==
  [state |-> "new", c |-> NilHttpClient, timeout |-> 0, trace |-> FALSE,
   cookies |-> [set |-> FALSE, list |-> <<>>], header |-> {}, baseURL |-> ""]

NoClient == [NewClient EXCEPT !.state = "none"]

\* the client options; a nil pointer dereference leaves state "panic"
WithHttpClient(c, hc) == [c EXCEPT !.c = hc]
WithTimeout(c, t) == [c EXCEPT !.timeout = t]
WithTrace(c) == [c EXCEPT !.trace = TRUE]
WithCookies(c, cookies) == [c EXCEPT !.cookies = [set |-> TRUE, list |-> cookies]]
WithCookieJar(c, jar) ==
  IF c.c.ok THEN [c EXCEPT !.c.Jar = jar] ELSE [c EXCEPT !.state = "panic"]
WithHeaders(c, header) == [c EXCEPT !.header = header]
WithHeader(c, key) == [c EXCEPT !.header = @ \cup {key}]
WithBaseUrl(c, u) == [c EXCEPT !.baseURL = u]

ClientOpt(op) == [op |-> op, hc |-> NilHttpClient]
ClientOptions ==
  {[ClientOpt("WithHttpClient") EXCEPT !.hc = hc] : hc \in HttpClients}
    \cup {ClientOpt(op) : op \in {"WithTimeout", "WithTrace", "WithCookies", "WithCookieJar",
                                  "WithHeaders", "WithHeader", "WithBaseUrl"}}

ApplyClientOption(c, o) ==
  CASE o.op = "WithHttpClient" -> WithHttpClient(c, o.hc)
    [] o.op = "WithTimeout" -> WithTimeout(c, TestTimeout)
    [] o.op = "WithTrace" -> WithTrace(c)
    [] o.op = "WithCookies" -> WithCookies(c, <<ClientCookie>>)
    [] o.op = "WithCookieJar" -> WithCookieJar(c, "j")
    [] o.op = "WithHeaders" -> WithHeaders(c, {"X-B"})
    [] o.op = "WithHeader" -> WithHeader(c, "X-A")
    [] o.op = "WithBaseUrl" -> WithBaseUrl(c, BaseUrl)

\* the loop over opts; a fault ends it
RECURSIVE ApplyClientOptions(_, _)
ApplyClientOptions(c, opts) ==
  IF opts = <<>> \/ c.state = "panic" THEN c
  ELSE ApplyClientOptions(ApplyClientOption(c, Head(opts)), Tail(opts))

\* New(opts...): result is the client and the jars as New leaves them.
\* cookiejar.Jar.SetCookies reads u.Scheme: a nil base URL with cookies to
\* store is a nil pointer dereference.
\* if c.c == nil { c.c = &http.Client{} }
DefaultHttpClient(c) ==
  IF c.c.ok THEN c ELSE [c EXCEPT !.c = [ok |-> TRUE, Jar |-> "nil", Timeout |-> 0]]

\* if c.timeout == 0 { c.timeout = defaultTimeout; c.c.Timeout = c.timeout }
DefaultTimeout(c) ==
  IF c.timeout = 0
    THEN [c EXCEPT !.timeout = defaultTimeout, !.c.Timeout = defaultTimeout]
    ELSE c

\* if c.c.Jar == nil { c.c.Jar = cookieJar }
DefaultJar(c) == IF c.c.Jar = "nil" THEN [c EXCEPT !.c.Jar = "std"] ELSE c

\* if c.cookies != nil { c.c.Jar.SetCookies(c.baseURL, c.cookies) }
StoreCookies(c, js) ==
  IF c.cookies.set /\ c.cookies.list # <<>> /\ c.baseURL = ""
    THEN [client |-> [c EXCEPT !.state = "panic"], jars |-> js]
    ELSE [client |-> [c EXCEPT !.state = "ready"],
          jars |-> IF c.cookies.set
                     THEN [js EXCEPT ![c.c.Jar] = JarSetCookies(@, c.cookies.list)]
                     ELSE js]

\* New after the loop over opts has left c
AfterOptions(c, js) ==
  IF c.state = "panic" THEN [client |-> c, jars |-> js]
  ELSE StoreCookies(DefaultJar(DefaultTimeout(DefaultHttpClient(c))), js)

NewResult(opts, js) == AfterOptions(ApplyClientOptions(NewClient, opts), js)

\* ------------------------------------------------------------ the server
JsonBody == <<"{\"url\":", "\"http://h/get\"}">>
TextBody == <<"plain ", "text">>

Reply(neterr, body, setCookie, readErr) ==
  [neterr |-> neterr, body |-> body, setCookie |-> setCookie, readErr |-> readErr]

\* what may come back for a request: no connection, or a 200 response whose
\* body is JSON or not, with or without a Set-Cookie header, and whose body
\* may break off after its first chunk
Replies ==
  {Reply(TRUE, <<>>, <<>>, FALSE), Reply(FALSE, JsonBody, <<>>, FALSE),
   Reply(FALSE, TextBody, <<>>, FALSE), Reply(FALSE, JsonBody, <<ServerCookie>>, FALSE),
   Reply(FALSE, JsonBody, <<>>, TRUE)}

PlainReplies == {rp \in Replies : rp.setCookie = <<>> /\ ~rp.readErr /\ rp.body # TextBody}

\* an *http.Response; ok is FALSE for nil
NoHttpResponse == [ok |-> FALSE, StatusCode |-> 0, Body |-> <<>>, readErr |-> FALSE]

\* ------------------------------------------------------------- Client.Do
\* http.Client.Do: the jar's cookies for the URL are added to the request
\* (to the header map it shares with the Request), the request is sent, the
\* cookies of the response are stored in the jar.  sent is what the server
\* received: nothing, or one request.
HttpClientDo(c, js, rid, conv, rp) ==
  LET fromJar == IF c.baseURL = "" THEN <<>> ELSE js[c.c.Jar]
      h == AddCookiesHeader(conv.raw.Header, fromJar)
      rq == [conv.rq EXCEPT !.Header = h]
  IN IF c.baseURL = ""
       THEN [err |-> Err(ErrUnsupportedScheme), resp |-> NoHttpResponse, rq |-> rq,
             jars |-> js, sent |-> <<>>]
     ELSE IF rp.neterr
       THEN [err |-> Err(ErrDial), resp |-> NoHttpResponse, rq |-> rq, jars |-> js,
             sent |-> <<>>]
     ELSE [err |-> NoErr,
           resp |-> [ok |-> TRUE, StatusCode |-> 200, Body |-> rp.body, readErr |-> rp.readErr],
           rq |-> rq,
           jars |-> [js EXCEPT ![c.c.Jar] = JarSetCookies(@, rp.setCookie)],
           sent |-> <<[rid |-> rid, query |-> conv.raw.query, ContentType |-> h.ContentType,
                       body |-> conv.raw.body, Cookie |-> h.Cookie]>>]

\* Client.Do once IntoHttpRequest has returned conv, with the conversion
\* error ignored
DoConverted_SendAnyway(c, js, rid, conv, rp) == HttpClientDo(c, js, rid, conv, rp)

\* Client.Do once IntoHttpRequest has returned conv
DoConverted(c, js, rid, conv, rp) ==
  IF conv.err # NoErr
    THEN [err |-> conv.err, resp |-> NoHttpResponse, rq |-> conv.rq, jars |-> js,
          sent |-> <<>>]
    ELSE HttpClientDo(c, js, rid, conv, rp)

\* Client.Do
DoResult(c, js, rid, rq, order, rp) == DoConverted(c, js, rid, IntoHttpRequest(rq, order), rp)

\* ---------------------------------------------------- results and targets
\* the value the caller passes as result: ref tells the object apart
Target(ref, kind, type, data) == [ref |-> ref, kind |-> kind, type |-> type, data |-> data]
NilTarget == Target("none", "nil", "", <<>>)
NewBuffer == Target("new", "io.Writer", "bytes", <<>>)

FetchTargets ==
  {NilTarget, Target("caller", "io.Writer", "bytes", <<>>),
   Target("caller", "io.Writer", "bytes", <<"old">>), Target("caller", "*[]byte", "bytes", <<"old">>),
   Target("caller", "*string", "string", <<"old">>), Target("caller", "*int", "int", <<"0">>)}

JSONTargets ==
  {NilTarget, Target("caller", "*struct", "struct", <<>>), Target("caller", "*string", "string", <<>>)}

\* io.ReadAll / io.Copy of a response body
ReadAll(resp) ==
  [data |-> IF resp.readErr THEN SubSeq(resp.Body, 1, 1) ELSE resp.Body,
   err |-> IF resp.readErr THEN Err(ErrBodyRead) ELSE NoErr]

\* a *Response; nil is FALSE for a response that was returned
NilResponse == [nil |-> TRUE, Raw |-> NoHttpResponse, Result |-> NilTarget]

\* Fetch with the copy into an io.Writer left out
FetchResult_NoCopy(do, result) ==
  IF do.err # NoErr THEN [err |-> do.err, resp |-> NilResponse, result |-> result]
  ELSE LET v == IF result.kind = "nil" THEN NewBuffer ELSE result
           rd == ReadAll(do.resp)
           w == CASE v.kind = "*[]byte" -> [v EXCEPT !.type = "bytes", !.data = rd.data]
                  [] v.kind = "*string" -> [v EXCEPT !.type = "string", !.data = rd.data]
                  [] OTHER -> v
       IN [err |-> IF v.kind \in {"*[]byte", "*string"} THEN rd.err ELSE NoErr,
           resp |-> [nil |-> FALSE, Raw |-> do.resp, Result |-> w],
           result |-> IF result.kind = "nil" THEN result ELSE w]

\* Fetch after Do has returned do: result is err, resp and the caller's target
FetchResult(do, result) ==
  IF do.err # NoErr THEN [err |-> do.err, resp |-> NilResponse, result |-> result]
  ELSE LET v == IF result.kind = "nil" THEN NewBuffer ELSE result
           rd == ReadAll(do.resp)
           w == CASE v.kind = "io.Writer" -> [v EXCEPT !.data = @ \o rd.data]
                  [] v.kind = "*[]byte" -> [v EXCEPT !.type = "bytes", !.data = rd.data]
                  [] v.kind = "*string" -> [v EXCEPT !.type = "string", !.data = rd.data]
                  [] OTHER -> v
       IN [err |-> IF v.kind \in {"io.Writer", "*[]byte", "*string"} THEN rd.err ELSE NoErr,
           resp |-> [nil |-> FALSE, Raw |-> do.resp, Result |-> w],
           result |-> IF result.kind = "nil" THEN result ELSE w]

\* json.Decoder.Decode of the body into the result
Decode(resp, result) ==
  LET rd == ReadAll(resp)
  IN IF rd.err # NoErr THEN [err |-> rd.err, result |-> result]
     ELSE IF rd.data # JsonBody \/ result.kind # "*struct"
       THEN [err |-> Err(ErrDecode), result |-> result]
     ELSE [err |-> NoErr, result |-> [result EXCEPT !.data = <<"url", rd.data[2]>>]]

\* JSON with the decoding error dropped
JSONResult_ErrDropped(do, result) ==
  IF do.err # NoErr THEN [err |-> do.err, resp |-> NilResponse, result |-> result]
  ELSE IF result.kind = "nil"
    THEN [err |-> NoErr, resp |-> [nil |-> FALSE, Raw |-> do.resp, Result |-> NilTarget],
          result |-> result]
  ELSE LET d == Decode(do.resp, result)
       IN [err |-> NoErr,
           resp |-> [nil |-> FALSE, Raw |-> do.resp, Result |-> d.result],
           result |-> d.result]

\* JSON after Do has returned do
JSONResult(do, result) ==
  IF do.err # NoErr THEN [err |-> do.err, resp |-> NilResponse, result |-> result]
  ELSE IF result.kind = "nil"
    THEN [err |-> NoErr, resp |-> [nil |-> FALSE, Raw |-> do.resp, Result |-> NilTarget],
          result |-> result]
  ELSE LET d == Decode(do.resp, result)
       IN [err |-> d.err,
           resp |-> [nil |-> FALSE, Raw |-> do.resp,
                     Result |-> IF d.err # NoErr THEN NilTarget ELSE d.result],
           result |-> d.result]

\* what a call returned: the operation, the request, err, resp, the caller's
\* result value after the call and the value it passed; calls counts the
\* calls made so far
NoReturn ==
  [op |-> "", rid |-> 0, err |-> NoErr, resp |-> NilResponse, result |-> NilTarget,
   passed |-> NilTarget, calls |-> 0]


\* ======================================================================
\* State
\* ======================================================================
VARIABLES
  variant,      \* session -> which handler serves it
  pc,           \* session -> position of the handler goroutine
  r,            \* session -> the request (handler variants) or *requestLine (raw)
  rerr,         \* session -> err returned by readRequestLine ("" is nil)
  scanBuf,      \* session -> bytes the bufio.Scanner holds
  clientConn,   \* session -> descriptor of the client connection (0: none)
  targetConn,   \* session -> descriptor of the target connection (0: none)
  wg,           \* session -> sync.WaitGroup counter
  ctxDone,      \* session -> ctx.Done() is closed
  task,         \* session -> direction -> copy goroutine
  connState,    \* descriptor -> "free" | "open" | "closed"
  closeCalls,   \* descriptor -> number of Close calls
  inq,          \* descriptor -> items received from the peer, not yet read
  peerEOF,      \* descriptor -> the peer has sent FIN
  peerRST,      \* descriptor -> the peer has reset the connection
  delivered,    \* descriptor -> items written to the connection (what the peer receives)
  cScript,      \* session -> items the client has still to send
  tScript,      \* session -> items the target has still to send
  dials,        \* session -> number of net.Dial calls
  rwLog,        \* session -> status codes written through the http.ResponseWriter
  statusLog,    \* session -> calls of writeStatusLine: [code, ok]
  hijacked,     \* session -> Hijack has succeeded
  nextFd,       \* next free descriptor
  client,       \* the *Client New has returned (state "none": not built yet)
  jars,         \* cookie jar -> the cookies it holds for the base URL
  reqs,         \* request id -> the *request.Request
  wire,         \* the HTTP requests that were transmitted, in order
  ret           \* what the last call of Do, Fetch or JSON returned

proxyVars == <<variant, pc, r, rerr, scanBuf, clientConn, targetConn, wg, ctxDone, task,
               connState, closeCalls, inq, peerEOF, peerRST, delivered, cScript, tScript,
               dials, rwLog, statusLog, hijacked, nextFd>>

clientVars == <<client, jars, reqs, wire, ret>>

vars == <<proxyVars, clientVars>>

progVars == <<variant, pc, r, rerr, scanBuf, clientConn, targetConn, wg, ctxDone, task,
              dials, rwLog, statusLog, hijacked, nextFd>>

NoTask == [pc |-> "none", dst |-> 0, src |-> 0, sig |-> 0, buf |-> <<>>, err |-> ""]

\* no connection has been accepted yet
InitProxy ==
  /\ variant = [s \in Sess |-> "none"]
  /\ pc = [s \in Sess |-> "idle"]
  /\ r = [s \in Sess |-> NoReq]
  /\ rerr = [s \in Sess |-> ""]
  /\ scanBuf = [s \in Sess |-> <<>>]
  /\ clientConn = [s \in Sess |-> 0]
  /\ targetConn = [s \in Sess |-> 0]
  /\ wg = [s \in Sess |-> 0]
  /\ ctxDone = [s \in Sess |-> FALSE]
  /\ task = [s \in Sess |-> [d \in Dirs |-> NoTask]]
  /\ connState = [c \in Conns |-> "free"]
  /\ closeCalls = [c \in Conns |-> 0]
  /\ inq = [c \in Conns |-> <<>>]
  /\ peerEOF = [c \in Conns |-> FALSE]
  /\ peerRST = [c \in Conns |-> FALSE]
  /\ delivered = [c \in Conns |-> <<>>]
  /\ cScript = [s \in Sess |-> <<>>]
  /\ tScript = [s \in Sess |-> <<>>]
  /\ dials = [s \in Sess |-> 0]
  /\ rwLog = [s \in Sess |-> <<>>]
  /\ statusLog = [s \in Sess |-> <<>>]
  /\ hijacked = [s \in Sess |-> FALSE]
  /\ nextFd = 1

\* no client has been built, no request made
Init ==
  /\ InitProxy
  /\ client = NoClient
  /\ jars = [j \in JarIds |-> <<>>]
  /\ reqs = [rid \in ReqIds |-> NoRequest]
  /\ wire = <<>>
  /\ ret = NoReturn

\* --------------------------------------------------------------- net.Conn
\* Close: the first call closes the descriptor, later calls only return an
\* error.  S is the set of descriptors closed in the step.
Close(S) ==
  /\ connState' = [c \in Conns |-> IF c \in S THEN "closed" ELSE connState[c]]
  /\ closeCalls' = [c \in Conns |-> IF c \in S THEN closeCalls[c] + 1 ELSE closeCalls[c]]

\* the error a Write on c returns ("" is nil)
WriteErr(c) ==
  IF connState[c] # "open" THEN ErrClosed
  ELSE IF peerRST[c] THEN ErrReset
  ELSE ""

\* a Read on c returns (it does not block)
ReadReady(c) ==
  /\ connState[c] # "free"
  /\ (connState[c] = "closed" \/ peerRST[c] \/ inq[c] # <<>> \/ peerEOF[c])

\* the error a Read on c returns when it returns no data ("" : data was read)
ReadErr(c) ==
  IF connState[c] = "closed" THEN ErrClosed
  ELSE IF peerRST[c] THEN ErrReset
  ELSE IF inq[c] = <<>> /\ peerEOF[c] THEN "EOF"
  ELSE ""

\* ------------------------------------------------------- writeStatusLine
\* helpers.go: fmt.Fprintf(conn, "%s %d %s\r\n\r\n", proto, statusCode, StatusText)
StatusLineProto(proto, code) ==
  proto \o " " \o ToString(code) \o " " \o StatusText(code) \o "\r\n\r\n"

\* ProtoMinor and ProtoMajor exchanged
StatusLineMajorMinor_Swapped(major, minor, code) ==
  "HTTP/" \o ToString(minor) \o "." \o ToString(major) \o " " \o ToString(code)
    \o " " \o StatusText(code) \o "\r\n\r\n"

\* proxy.go, part_001: fmt.Fprintf(conn, "HTTP/%d.%d %d %s\r\n\r\n", r.ProtoMajor, r.ProtoMinor, ...)
StatusLineMajorMinor(major, minor, code) ==
  "HTTP/" \o ToString(major) \o "." \o ToString(minor) \o " " \o ToString(code)
    \o " " \o StatusText(code) \o "\r\n\r\n"

StatusLineText(v, req, code) ==
  IF v \in {"wg", "ctx"}
    THEN StatusLineMajorMinor(req.major, req.minor, code)
    ELSE StatusLineProto(req.proto, code)

\* One call of writeStatusLine on the client connection of s: a single Write;
\* its error is logged and dropped.
writeStatusLine(s, code) ==
  LET c == clientConn[s]
      ok == WriteErr(c) = ""
  IN /\ delivered' = [delivered EXCEPT ![c] =
                        IF ok THEN Append(@, StatusItem(StatusLineText(variant[s], r[s], code)))
                        ELSE @]
     /\ statusLog' = [statusLog EXCEPT ![s] = Append(@, [code |-> code, ok |-> ok])]

\* ----------------------------------------------------------- the handlers
\* The server accepts a connection and calls the handler: the handler-based
\* variants get the parsed request, the raw-socket variant gets the socket.
RawScripts(s) ==
  {IF Len(line) >= 5 THEN line \o Payload(s, "c") ELSE line : line \in RequestLines}

AcceptAs(s, V, Q) ==
  /\ pc[s] = "idle"
  /\ nextFd \in Conns
  /\ \E v \in V :
       /\ variant' = [variant EXCEPT ![s] = v]
       /\ IF v = "raw"
            THEN /\ \E script \in RawScripts(s) : cScript' = [cScript EXCEPT ![s] = script]
                 /\ pc' = [pc EXCEPT ![s] = "readline"]
                 /\ UNCHANGED r
            ELSE /\ \E q \in Q : r' = [r EXCEPT ![s] = q]
                 /\ cScript' = [cScript EXCEPT ![s] = Payload(s, "c")]
                 /\ pc' = [pc EXCEPT ![s] = "start"]
  /\ clientConn' = [clientConn EXCEPT ![s] = nextFd]
  /\ connState' = [connState EXCEPT ![nextFd] = "open"]
  /\ nextFd' = nextFd + 1
  /\ UNCHANGED <<rerr, scanBuf, targetConn, wg, ctxDone, task, closeCalls, inq, peerEOF,
                 peerRST, delivered, tScript, dials, rwLog, statusLog, hijacked>>

\* any handler, any request
Accept(s) == AcceptAs(s, Variants, HandlerRequests)

\* the handler answering through the ResponseWriter after a successful Hijack
HandlerEntry_WriteAfterHijack(s) ==
  /\ pc[s] = "start"
  /\ IF r[s].method # MethodConnect
       THEN /\ rwLog' = [rwLog EXCEPT ![s] = Append(@, 405)]
            /\ pc' = [pc EXCEPT ![s] = "returned"]
            /\ UNCHANGED hijacked
       ELSE \E ok \in BOOLEAN :
              /\ hijacked' = [hijacked EXCEPT ![s] = ok]
              /\ rwLog' = [rwLog EXCEPT ![s] = Append(@, IF ok THEN 200 ELSE 500)]
              /\ pc' = [pc EXCEPT ![s] = IF ok THEN "dial" ELSE "returned"]
  /\ UNCHANGED <<variant, r, rerr, scanBuf, clientConn, targetConn, wg, ctxDone, task,
                 connState, closeCalls, inq, peerEOF, peerRST, delivered, cScript, tScript,
                 dials, statusLog, nextFd>>

\* Handler-based variants, up to the Hijack: the method check (405 through the
\* ResponseWriter), then w.(http.Hijacker).Hijack() (500 through the
\* ResponseWriter when it fails).
HandlerEntry(s) ==
  /\ pc[s] = "start"
  /\ IF r[s].method # MethodConnect
       THEN /\ rwLog' = [rwLog EXCEPT ![s] = Append(@, 405)]
            /\ pc' = [pc EXCEPT ![s] = "returned"]
            /\ UNCHANGED hijacked
       ELSE \E ok \in BOOLEAN :
              IF ok
                THEN /\ hijacked' = [hijacked EXCEPT ![s] = TRUE]
                     /\ pc' = [pc EXCEPT ![s] = "dial"]
                     /\ UNCHANGED rwLog
                ELSE /\ rwLog' = [rwLog EXCEPT ![s] = Append(@, 500)]
                     /\ pc' = [pc EXCEPT ![s] = "returned"]
                     /\ UNCHANGED hijacked
  /\ UNCHANGED <<variant, r, rerr, scanBuf, clientConn, targetConn, wg, ctxDone, task,
                 connState, closeCalls, inq, peerEOF, peerRST, delivered, cScript, tScript,
                 dials, statusLog, nextFd>>

\* one status for every variant
DialFailStatus_Same(v) == 500

\* the status written when net.Dial fails
DialFailStatus(v) == IF v = "raw" THEN 500 ELSE 503

\* net.Dial("tcp", authority): on failure the status line is written and the
\* client connection closed (explicitly in the raw variant, by the deferred
\* Close in the others); on success the target connection exists.
Dial(s) ==
  /\ pc[s] = "dial"
  /\ dials' = [dials EXCEPT ![s] = @ + 1]
  /\ \E ok \in BOOLEAN :
       IF ok
         THEN /\ nextFd \in Conns
              /\ targetConn' = [targetConn EXCEPT ![s] = nextFd]
              /\ connState' = [connState EXCEPT ![nextFd] = "open"]
              /\ tScript' = [tScript EXCEPT ![s] = Payload(s, "t")]
              /\ nextFd' = nextFd + 1
              /\ pc' = [pc EXCEPT ![s] = "status"]
              /\ UNCHANGED <<delivered, statusLog, closeCalls>>
         ELSE /\ writeStatusLine(s, DialFailStatus(variant[s]))
              /\ Close({clientConn[s]})
              /\ pc' = [pc EXCEPT ![s] = "returned"]
              /\ UNCHANGED <<targetConn, tScript, nextFd>>
  /\ UNCHANGED <<variant, r, rerr, scanBuf, clientConn, wg, ctxDone, task, inq, peerEOF,
                 peerRST, cScript, rwLog, hijacked>>

\* the relay is started without the 200 status line having been written
WriteStatusOK_Skip(s) ==
  /\ pc[s] = "status"
  /\ pc' = [pc EXCEPT ![s] = "spawn"]
  /\ UNCHANGED <<variant, r, rerr, scanBuf, clientConn, targetConn, wg, ctxDone, task,
                 connState, closeCalls, inq, peerEOF, peerRST, cScript, tScript, dials,
                 rwLog, hijacked, nextFd, delivered, statusLog>>

\* writeStatusLine(clientConn, http.StatusOK, ...)
WriteStatusOK(s) ==
  /\ pc[s] = "status"
  /\ writeStatusLine(s, 200)
  /\ pc' = [pc EXCEPT ![s] = "spawn"]
  /\ UNCHANGED <<variant, r, rerr, scanBuf, clientConn, targetConn, wg, ctxDone, task,
                 connState, closeCalls, inq, peerEOF, peerRST, cScript, tScript, dials,
                 rwLog, hijacked, nextFd>>

\* the client connection kept in one place for all sessions (that of the
\* first session) instead of the handler's own
CopyArgs_Shared(s, d) ==
  IF d = "c2t"
    THEN [pc |-> "read", dst |-> targetConn[s], src |-> clientConn[1], sig |-> s,
          buf |-> <<>>, err |-> ""]
    ELSE [pc |-> "read", dst |-> clientConn[1], src |-> targetConn[s], sig |-> s,
          buf |-> <<>>, err |-> ""]

\* the arguments of the two go copyIO(...) statements
CopyArgs(s, d) ==
  IF d = "c2t"
    THEN [pc |-> "read", dst |-> targetConn[s], src |-> clientConn[s], sig |-> s,
          buf |-> <<>>, err |-> ""]
    ELSE [pc |-> "read", dst |-> clientConn[s], src |-> targetConn[s], sig |-> s,
          buf |-> <<>>, err |-> ""]

\* wg.Add(2) (or context.WithCancel), then the two goroutines are started
StartRelay(s) ==
  /\ pc[s] = "spawn"
  /\ wg' = [wg EXCEPT ![s] = IF variant[s] = "ctx" THEN @ ELSE @ + 2]
  /\ task' = [task EXCEPT ![s] = [d \in Dirs |-> CopyArgs(s, d)]]
  /\ pc' = [pc EXCEPT ![s] = "wait"]
  /\ UNCHANGED <<variant, r, rerr, scanBuf, clientConn, targetConn, ctxDone, connState,
                 closeCalls, inq, peerEOF, peerRST, delivered, cScript, tScript, dials,
                 rwLog, statusLog, hijacked, nextFd>>

\* the handler returns without closing anything
Deferred_Nothing(s) == {}

\* the connections the handler's deferred calls close on return
Deferred(s) ==
  IF variant[s] = "raw" THEN {targetConn[s]} ELSE {targetConn[s], clientConn[s]}

\* wg.Wait() / <-ctx.Done() returns
WaitReleased(s) ==
  IF variant[s] = "ctx" THEN ctxDone[s] ELSE wg[s] = 0

\* the wait returns and the handler returns, running its deferred Closes
Wait(s) ==
  /\ pc[s] = "wait"
  /\ WaitReleased(s)
  /\ Close(Deferred(s))
  /\ pc' = [pc EXCEPT ![s] = "returned"]
  /\ UNCHANGED <<variant, r, rerr, scanBuf, clientConn, targetConn, wg, ctxDone, task,
                 inq, peerEOF, peerRST, delivered, cScript, tScript, dials, rwLog,
                 statusLog, hijacked, nextFd>>

\* ------------------------------------------------------------------ copyIO
\* copyIO without the dst.Close() after a nil io.Copy
copyIOEnd_NoClose(s, d, err) ==
  LET t == task[s][d] IN
  /\ task' = [task EXCEPT ![s][d] = [@ EXCEPT !.pc = "done", !.err = err, !.buf = <<>>]]
  /\ IF variant[s] = "ctx"
       THEN /\ ctxDone' = IF err = "" THEN [ctxDone EXCEPT ![t.sig] = TRUE] ELSE ctxDone
            /\ UNCHANGED <<wg, connState, closeCalls>>
       ELSE /\ wg' = [wg EXCEPT ![t.sig] = @ - 1]
            /\ UNCHANGED <<connState, closeCalls, ctxDone>>

\* copyIO with wg.Done() called after a nil io.Copy only, not deferred
copyIOEnd_DoneOnNilOnly(s, d, err) ==
  LET t == task[s][d] IN
  /\ task' = [task EXCEPT ![s][d] = [@ EXCEPT !.pc = "done", !.err = err, !.buf = <<>>]]
  /\ IF variant[s] = "ctx"
       THEN /\ ctxDone' = IF err = "" THEN [ctxDone EXCEPT ![t.sig] = TRUE] ELSE ctxDone
            /\ UNCHANGED <<wg, connState, closeCalls>>
       ELSE /\ wg' = IF err = "" THEN [wg EXCEPT ![t.sig] = @ - 1] ELSE wg
            /\ IF err = "" THEN Close({t.dst}) ELSE UNCHANGED <<connState, closeCalls>>
            /\ UNCHANGED ctxDone

\* copyIO of the cancellation variant closing dst before cancel()
copyIOEnd_CloseThenCancel(s, d, err) ==
  LET t == task[s][d] IN
  /\ task' = [task EXCEPT ![s][d] = [@ EXCEPT !.pc = "done", !.err = err, !.buf = <<>>]]
  /\ IF variant[s] = "ctx"
       THEN /\ ctxDone' = IF err = "" THEN [ctxDone EXCEPT ![t.sig] = TRUE] ELSE ctxDone
            /\ IF err = "" THEN Close({t.dst}) ELSE UNCHANGED <<connState, closeCalls>>
            /\ UNCHANGED wg
       ELSE /\ wg' = [wg EXCEPT ![t.sig] = @ - 1]
            /\ IF err = "" THEN Close({t.dst}) ELSE UNCHANGED <<connState, closeCalls>>
            /\ UNCHANGED ctxDone

\* io.Copy has returned err ("" : nil, the source reached EOF).
\* WaitGroup variants: on nil dst.Close(), and the deferred wg.Done() always.
\* Cancellation variant: cancel() on nil, nothing on an error.
copyIOEnd(s, d, err) ==
  LET t == task[s][d] IN
  /\ task' = [task EXCEPT ![s][d] = [@ EXCEPT !.pc = "done", !.err = err, !.buf = <<>>]]
  /\ IF variant[s] = "ctx"
       THEN /\ ctxDone' = IF err = "" THEN [ctxDone EXCEPT ![t.sig] = TRUE] ELSE ctxDone
            /\ UNCHANGED <<wg, connState, closeCalls>>
       ELSE /\ wg' = [wg EXCEPT ![t.sig] = @ - 1]
            /\ IF err = "" THEN Close({t.dst}) ELSE UNCHANGED <<connState, closeCalls>>
            /\ UNCHANGED ctxDone

\* io.Copy: src.Read
copyIORead(s, d) ==
  LET t == task[s][d] IN
  /\ t.pc = "read"
  /\ ReadReady(t.src)
  /\ LET e == ReadErr(t.src) IN
       IF e = ""
         THEN /\ task' = [task EXCEPT ![s][d] = [@ EXCEPT !.pc = "write", !.buf = inq[t.src]]]
              /\ inq' = [inq EXCEPT ![t.src] = <<>>]
              /\ UNCHANGED <<wg, ctxDone, connState, closeCalls>>
         ELSE /\ copyIOEnd(s, d, IF e = "EOF" THEN "" ELSE e)
              /\ UNCHANGED inq
  /\ UNCHANGED <<variant, pc, r, rerr, scanBuf, clientConn, targetConn, peerEOF, peerRST,
                 delivered, cScript, tScript, dials, rwLog, statusLog, hijacked, nextFd>>

\* io.Copy: dst.Write of what was read
copyIOWrite(s, d) ==
  LET t == task[s][d] IN
  /\ t.pc = "write"
  /\ LET e == WriteErr(t.dst) IN
       IF e = ""
         THEN /\ delivered' = [delivered EXCEPT ![t.dst] = @ \o t.buf]
              /\ task' = [task EXCEPT ![s][d] = [@ EXCEPT !.pc = "read", !.buf = <<>>]]
              /\ UNCHANGED <<wg, ctxDone, connState, closeCalls>>
         ELSE /\ copyIOEnd(s, d, e)
              /\ UNCHANGED delivered
  /\ UNCHANGED <<variant, pc, r, rerr, scanBuf, clientConn, targetConn, inq, peerEOF,
                 peerRST, cScript, tScript, dials, rwLog, statusLog, hijacked, nextFd>>

\* ------------------------------------------------- the raw-socket variant
\* bufio.ScanLines with dropCR: the line up to the first "\n" (a final
\* unterminated line at EOF), without a trailing "\r".
dropCR(data) ==
  IF Len(data) > 0 /\ data[Len(data)].val = "\r" THEN SubSeq(data, 1, Len(data) - 1) ELSE data

NewlineAt(data) ==
  IF \E i \in 1..Len(data) : data[i].val = "\n"
    THEN CHOOSE i \in 1..Len(data) :
           data[i].val = "\n" /\ \A j \in 1..(i - 1) : data[j].val # "\n"
    ELSE 0

ScanLines(data, atEOF) ==
  IF atEOF /\ Len(data) = 0
    THEN [found |-> FALSE, advance |-> 0, token |-> <<>>]
  ELSE IF NewlineAt(data) > 0
    THEN [found |-> TRUE, advance |-> NewlineAt(data),
          token |-> dropCR(SubSeq(data, 1, NewlineAt(data) - 1))]
  ELSE IF atEOF
    THEN [found |-> TRUE, advance |-> Len(data), token |-> dropCR(data)]
  ELSE [found |-> FALSE, advance |-> 0, token |-> <<>>]

\* strings.Split(line, " ")
RECURSIVE SplitFrom(_, _)
SplitFrom(line, cur) ==
  IF line = <<>> THEN <<cur>>
  ELSE IF Head(line).val = " " THEN <<cur>> \o SplitFrom(Tail(line), "")
  ELSE SplitFrom(Tail(line), cur \o Head(line).val)

Split(line) == SplitFrom(line, "")

\* scanner.Err(): io.EOF is not an error
ScannerErr(e) == IF e = "EOF" THEN "" ELSE e

\* readRequestLine: one Read of scanner.Scan() and, when it yields a token,
\* the split into parts[0], parts[1], parts[2] (a fault on a shorter line).
\* The bytes read past the line stay in the scanner's buffer.
readRequestLine(s) ==
  /\ pc[s] = "readline"
  /\ ReadReady(clientConn[s])
  /\ LET c == clientConn[s]
         e == ReadErr(c)
         buf == IF e = "" THEN scanBuf[s] \o inq[c] ELSE scanBuf[s]
         tok == ScanLines(buf, e # "")
         parts == Split(tok.token)
     IN /\ inq' = [inq EXCEPT ![c] = IF e = "" THEN <<>> ELSE @]
        /\ IF tok.found
             THEN /\ scanBuf' = [scanBuf EXCEPT ![s] = SubSeq(buf, tok.advance + 1, Len(buf))]
                  /\ IF Len(parts) < 3
                       THEN /\ pc' = [pc EXCEPT ![s] = "panic"]
                            /\ UNCHANGED <<r, rerr>>
                       ELSE /\ r' = [r EXCEPT ![s] = [method |-> parts[1], authority |-> parts[2],
                                                      proto |-> parts[3], major |-> 0, minor |-> 0]]
                            /\ rerr' = [rerr EXCEPT ![s] = ScannerErr(e)]
                            /\ pc' = [pc EXCEPT ![s] = "parsed"]
             ELSE /\ scanBuf' = [scanBuf EXCEPT ![s] = buf]
                  /\ IF e # ""
                       THEN /\ rerr' = [rerr EXCEPT ![s] = ScannerErr(e)]
                            /\ pc' = [pc EXCEPT ![s] = "parsed"]
                            /\ UNCHANGED r
                       ELSE UNCHANGED <<r, rerr, pc>>
  /\ UNCHANGED <<variant, clientConn, targetConn, wg, ctxDone, task, connState, closeCalls,
                 peerEOF, peerRST, delivered, cScript, tScript, dials, rwLog, statusLog,
                 hijacked, nextFd>>

\* ProxyConnectHandle without the method check
ProxyConnectHandle_NoMethodCheck(s) ==
  /\ pc[s] = "parsed"
  /\ IF r[s] = NoReq
       THEN /\ pc' = [pc EXCEPT ![s] = "panic"]
            /\ UNCHANGED <<delivered, statusLog, connState, closeCalls>>
       ELSE IF rerr[s] # ""
         THEN /\ writeStatusLine(s, 500)
              /\ Close({clientConn[s]})
              /\ pc' = [pc EXCEPT ![s] = "returned"]
       ELSE /\ pc' = [pc EXCEPT ![s] = "dial"]
            /\ UNCHANGED <<delivered, statusLog, connState, closeCalls>>
  /\ UNCHANGED <<variant, r, rerr, scanBuf, clientConn, targetConn, wg, ctxDone, task, inq,
                 peerEOF, peerRST, cScript, tScript, dials, rwLog, hijacked, nextFd>>

\* ProxyConnectHandle after readRequestLine has returned (r, err): the err
\* branch and the method check both read fields of r, which is nil when no
\* line was scanned.
ProxyConnectHandle(s) ==
  /\ pc[s] = "parsed"
  /\ IF r[s] = NoReq
       THEN /\ pc' = [pc EXCEPT ![s] = "panic"]
            /\ UNCHANGED <<delivered, statusLog, connState, closeCalls>>
       ELSE IF rerr[s] # ""
         THEN /\ writeStatusLine(s, 500)
              /\ Close({clientConn[s]})
              /\ pc' = [pc EXCEPT ![s] = "returned"]
       ELSE IF r[s].method # MethodConnect
         THEN /\ writeStatusLine(s, 405)
              /\ Close({clientConn[s]})
              /\ pc' = [pc EXCEPT ![s] = "returned"]
       ELSE /\ pc' = [pc EXCEPT ![s] = "dial"]
            /\ UNCHANGED <<delivered, statusLog, connState, closeCalls>>
  /\ UNCHANGED <<variant, r, rerr, scanBuf, clientConn, targetConn, wg, ctxDone, task, inq,
                 peerEOF, peerRST, cScript, tScript, dials, rwLog, hijacked, nextFd>>

\* ---------------------------------------------------------------- the peers
PeerConn(s, side) == IF side = "c" THEN clientConn[s] ELSE targetConn[s]
PeerScript(s, side) == IF side = "c" THEN cScript[s] ELSE tScript[s]

PeerUp(s, side) ==
  /\ PeerConn(s, side) # 0
  /\ connState[PeerConn(s, side)] = "open"
  /\ ~peerRST[PeerConn(s, side)]

\* a peer sends its next item
PeerSend(s, side) ==
  /\ PeerUp(s, side)
  /\ ~peerEOF[PeerConn(s, side)]
  /\ PeerScript(s, side) # <<>>
  /\ inq' = [inq EXCEPT ![PeerConn(s, side)] = Append(@, Head(PeerScript(s, side)))]
  /\ IF side = "c"
       THEN cScript' = [cScript EXCEPT ![s] = Tail(@)] /\ UNCHANGED tScript
       ELSE tScript' = [tScript EXCEPT ![s] = Tail(@)] /\ UNCHANGED cScript
  /\ UNCHANGED <<progVars, connState, closeCalls, peerEOF, peerRST, delivered>>

\* a peer closes its sending side (FIN): the proxy reads EOF after the data
PeerClose(s, side) ==
  /\ PeerUp(s, side)
  /\ ~peerEOF[PeerConn(s, side)]
  /\ peerEOF' = [peerEOF EXCEPT ![PeerConn(s, side)] = TRUE]
  /\ UNCHANGED <<progVars, connState, closeCalls, inq, peerRST, delivered, cScript, tScript>>

\* a peer resets the connection: reads and writes of the proxy on it fail
PeerReset(s, side) ==
  /\ PeerUp(s, side)
  /\ peerRST' = [peerRST EXCEPT ![PeerConn(s, side)] = TRUE]
  /\ UNCHANGED <<progVars, connState, closeCalls, inq, peerEOF, delivered, cScript, tScript>>

\* --------------------------------------------------------- specifications
Sides == {"c", "t"}

\* one session
Next ==
  /\ UNCHANGED clientVars
  /\ \E s \in {1} :
    \/ Accept(s)
    \/ HandlerEntry(s)
    \/ readRequestLine(s)
    \/ ProxyConnectHandle(s)
    \/ Dial(s)
    \/ WriteStatusOK(s)
    \/ StartRelay(s)
    \/ Wait(s)
    \/ \E d \in Dirs : copyIORead(s, d)
    \/ \E d \in Dirs : copyIOWrite(s, d)
    \/ \E side \in Sides : PeerSend(s, side)
    \/ \E side \in Sides : PeerClose(s, side)
    \/ \E side \in Sides : PeerReset(s, side)

Spec == Init /\ [][Next]_vars

\* goroutine scheduling: the handler goroutine and each copy goroutine run
\* whenever they can; the peers owe nothing
Handler(s) ==
  /\ UNCHANGED clientVars
  /\ \/ HandlerEntry(s) \/ readRequestLine(s) \/ ProxyConnectHandle(s) \/ Dial(s)
     \/ WriteStatusOK(s) \/ StartRelay(s) \/ Wait(s)

Copier(s, d) == UNCHANGED clientVars /\ (copyIORead(s, d) \/ copyIOWrite(s, d))

FairSpec ==
  /\ Spec
  /\ WF_vars(Handler(1))
  /\ \A d \in Dirs : WF_vars(Copier(1, d))

\* ------------------------------------------------------------- vocabulary
IsPrefix(a, b) == Len(a) <= Len(b) /\ a = SubSeq(b, 1, Len(a))
IsData(x) == x.kind = "data"
IsStatus(x) == x.kind = "status"
DataOf(seq) == SelectSeq(seq, IsData)
StatusOf(seq) == SelectSeq(seq, IsStatus)

\* the relay of s was started (both go statements were executed)
Started(s) == task[s]["c2t"].pc # "none"
Closed(c) == c # 0 /\ connState[c] = "closed"
WgVariant(s) == variant[s] \in {"http", "wg", "raw"}

\* C1: when the session-level call returns after a relay was started, both the
\* client connection and the target connection have been closed, in every
\* variant and for every way the relay ended.
C1_BothClosedOnReturn ==
  \A s \in Sess :
    (pc[s] = "returned" /\ Started(s)) => (Closed(clientConn[s]) /\ Closed(targetConn[s]))

\* C4: byte-exact relay: what has been delivered to the target is, in order and
\* without gaps, the payload the client sent after its request line, and what
\* has been delivered to the client (after the status line) is likewise the
\* payload of the target.
C4_ByteExactRelay ==
  \A s \in Sess :
    targetConn[s] # 0 =>
      /\ IsPrefix(delivered[targetConn[s]], Payload(s, "c"))
      /\ IsPrefix(DataOf(delivered[clientConn[s]]), Payload(s, "t"))

\* C10: readRequestLine never returns a nil request line together with a nil
\* error: when the stream ends or fails before a line is there, err is set.
C10_NoNilLineWithNilError ==
  \A s \in Sess :
    (variant[s] = "raw" /\ pc[s] = "parsed" /\ r[s] = NoReq) => rerr[s] # ""

\* a copy goroutine of s has finished: with EOF on its source (io.Copy
\* returned nil), or with an I/O error other than the closed-connection one
EndedEOF(s, d) == task[s][d].pc = "done" /\ task[s][d].err = ""
EndedIOError(s, d) == task[s][d].pc = "done" /\ task[s][d].err \notin {"", ErrClosed}

\* C2: once the copy goroutine reading from a peer has seen EOF, eventually the
\* opposite connection (its destination) is closed and the session-level wait
\* has returned (the handler has returned, it has not faulted or hung).
C2_PeerCloseTearsDown ==
  \A d \in Dirs :
    EndedEOF(1, d) ~> (Closed(task[1][d].dst) /\ pc[1] = "returned")

C2_Witness ==
  \E d \in Dirs : EndedEOF(1, d) /\ Closed(task[1][d].dst) /\ pc[1] = "returned"

\* C3: in the WaitGroup relay, once one direction has ended with an I/O error
\* that is not the closed-connection condition, the session-level wait
\* eventually returns, whatever the remaining peer does.
C3_ErrorTearsDown ==
  \A d \in Dirs :
    (WgVariant(1) /\ EndedIOError(1, d)) ~> (pc[1] = "returned")

\* what the client of s has received so far
ToClient(s) == delivered[clientConn[s]]
Codes(log) == [i \in 1..Len(log) |-> log[i].code]

\* C5 as stated: for every successful dial the client receives exactly one 200
\* status line, fully written before either copy task starts.
C5_ExactlyOneStatusReceived ==
  \A s \in Sess :
    Started(s) => (Len(StatusOf(ToClient(s))) = 1 /\ IsStatus(ToClient(s)[1]))

\* C5 amended: for every successful dial writeStatusLine(200) is called exactly
\* once and has returned before either copy task starts; the client receives
\* at most one status line, exactly one when that write succeeded and none
\* when it failed, and no tunneled byte reaches the client before it.
C5_StatusBeforeRelay ==
  \A s \in Sess :
    clientConn[s] # 0 =>
      /\ Started(s) => Codes(statusLog[s]) = <<200>>
      /\ Len(StatusOf(ToClient(s))) <= 1
      /\ ToClient(s) # <<>> => IsStatus(ToClient(s)[1])
      /\ Started(s) => (Len(StatusOf(ToClient(s))) = 1 <=> statusLog[s][1].ok)

C5_Witness ==
  /\ Started(1)
  /\ statusLog[1][1].ok
  /\ Len(DataOf(ToClient(1))) = MaxSend

\* a request whose method is not CONNECT (read without error, in the raw variant)
NonConnect(s) == r[s] # NoReq /\ rerr[s] = "" /\ r[s].method # MethodConnect

\* C6: for a request whose method is not CONNECT the proxy never dials, never
\* hijacks and never relays, and it has answered 405 when it returns: through
\* the ResponseWriter in the handler-based variants, by a status line on the
\* socket, which is then closed, in the raw-socket variant.
C6_NonConnectRejected ==
  \A s \in Sess :
    NonConnect(s) =>
      /\ dials[s] = 0 /\ targetConn[s] = 0 /\ ~hijacked[s] /\ ~Started(s)
      /\ pc[s] \notin {"dial", "status", "spawn", "wait"}
      /\ pc[s] = "returned" =>
           IF variant[s] = "raw"
             THEN /\ Codes(statusLog[s]) = <<405>> /\ rwLog[s] = <<>>
                  /\ Closed(clientConn[s])
                  /\ statusLog[s][1].ok =>
                       ToClient(s) = <<StatusItem(r[s].proto \o " 405 Method Not Allowed\r\n\r\n")>>
             ELSE rwLog[s] = <<405>> /\ statusLog[s] = <<>> /\ ToClient(s) = <<>>

C6_Witness ==
  /\ NonConnect(1) /\ pc[1] = "returned" /\ variant[1] = "raw" /\ statusLog[1][1].ok

\* the single dial of s has failed
DialFailed(s) == dials[s] >= 1 /\ targetConn[s] = 0 /\ pc[s] = "returned"

\* C7: when the dial fails the proxy writes one status line, 503 in the
\* handler-based variants and 500 in the raw-socket variant, closes the client
\* connection, starts no copy task and does not dial again.
C7_DialFailure ==
  \A s \in Sess :
    /\ dials[s] <= 1
    /\ DialFailed(s) =>
         /\ Codes(statusLog[s]) = <<IF variant[s] = "raw" THEN 500 ELSE 503>>
         /\ statusLog[s][1].code \notin 200..299
         /\ Len(StatusOf(ToClient(s))) = (IF statusLog[s][1].ok THEN 1 ELSE 0)
         /\ Closed(clientConn[s])
         /\ ~Started(s) /\ wg[s] = 0 /\ ~ctxDone[s]

C7_Witness ==
  DialFailed(1) /\ variant[1] = "http" /\ statusLog[1][1].ok

\* the status line the client of s got after a successful dial
SuccessLines(s) == IF targetConn[s] # 0 THEN StatusOf(ToClient(s)) ELSE <<>>

VariantsN == {"http", "ctx"}
RequestsN == {q \in HandlerRequests : q.method = MethodConnect /\ q.proto = "HTTP/1.1"}

AcceptN(s) == AcceptAs(s, VariantsN, RequestsN)

PeerSendFirst(s, side) ==
  /\ PeerConn(s, side) # 0
  /\ Len(PeerScript(s, side)) = MaxSend
  /\ PeerSend(s, side)

NextN ==
  /\ UNCHANGED clientVars
  /\ \E s \in Sess :
    \/ AcceptN(s)
    \/ HandlerEntry(s)
    \/ Dial(s)
    \/ WriteStatusOK(s)
    \/ StartRelay(s)
    \/ Wait(s)
    \/ \E d \in Dirs : copyIORead(s, d)
    \/ \E d \in Dirs : copyIOWrite(s, d)
    \/ \E side \in Sides : PeerSendFirst(s, side)
    \/ PeerClose(s, "c")

SpecN == Init /\ [][NextN]_vars

\* the connections of session s
Owned(s) == {clientConn[s], targetConn[s]} \ {0}

\* the step is one of session s's own goroutines (handler or copy task)
StepOf(s) == pc'[s] # pc[s] \/ task'[s] # task[s]

\* no connection is shared; a copy task holds only the connections and the
\* completion signal of its own session; a connection carries only bytes of
\* its own session, from the opposite peer
Isolated ==
  /\ \A s1 \in Sess, s2 \in Sess : s1 # s2 => Owned(s1) \cap Owned(s2) = {}
  /\ \A s \in Sess, d \in Dirs :
       task[s][d].pc # "none" =>
         /\ {task[s][d].dst, task[s][d].src} = {clientConn[s], targetConn[s]}
         /\ task[s][d].sig = s
  /\ \A s \in Sess :
       /\ targetConn[s] # 0 =>
            \A i \in 1..Len(delivered[targetConn[s]]) :
              delivered[targetConn[s]][i] \in {Data(s, "c", n) : n \in 1..MaxSend}
       /\ clientConn[s] # 0 =>
            \A i \in 1..Len(ToClient(s)) :
              IsData(ToClient(s)[i]) => ToClient(s)[i] \in {Data(s, "t", n) : n \in 1..MaxSend}

\* a connection is closed, and a wait is released, only by a step of the
\* session that owns it
OwnSteps ==
  \A s \in Sess :
    /\ \A c \in Owned(s) : (connState[c] = "open" /\ connState'[c] = "closed") => StepOf(s)
    /\ (wg'[s] # wg[s] \/ ctxDone'[s] # ctxDone[s]) => StepOf(s)
    /\ (pc[s] = "wait" /\ pc'[s] # "wait") => (WaitReleased(s) /\ StepOf(s))

\* C9: with the sessions running concurrently, each session's copy tasks read
\* and write only that session's own connections, no byte of one session is
\* delivered on a connection of another, and a step of one session never
\* closes a connection or releases the wait of another.
C9_SessionsIsolated == []Isolated /\ [][OwnSteps]_vars

C9_Witness ==
  /\ pc[1] = "returned" /\ Started(1)
  /\ pc[2] = "wait" /\ \A c \in Owned(2) : connState[c] = "open"
  /\ \A s \in Sess : DataOf(ToClient(s)) # <<>> /\ delivered[targetConn[s]] # <<>>
  /\ clientConn[2] < targetConn[1]

\* ------------------------------------------- the raw-socket request line
\* the handler of s is about to scan a line with fewer than three tokens
ShortLineAhead(s) ==
  /\ variant[s] = "raw"
  /\ pc[s] = "readline"
  /\ ReadReady(clientConn[s])
  /\ LET e == ReadErr(clientConn[s])
         buf == IF e = "" THEN scanBuf[s] \o inq[clientConn[s]] ELSE scanBuf[s]
         tok == ScanLines(buf, e # "")
     IN tok.found /\ Len(Split(tok.token)) < 3

\* C11: in the raw-socket variant a request line with fewer than three
\* space-separated tokens is classified as malformed: readRequestLine returns
\* to its caller with an error (so that the line is answered with an error
\* status line and the client connection is closed), it does not fault, and
\* no dial is made.
C11_ShortLineRejected ==
  [][\A s \in Sess :
       ShortLineAhead(s) /\ pc'[s] # pc[s] =>
         (pc'[s] = "parsed" /\ rerr'[s] # "" /\ dials'[s] = 0)]_vars

\* C12: the raw-socket parser consumes exactly one line: when readRequestLine
\* has returned, every byte the client sent after the first line terminator
\* is still to be read from the client connection, none is held back by the
\* parser.
C12_OnlyTheLineConsumed ==
  \A s \in Sess :
    (variant[s] = "raw" /\ pc[s] \in {"parsed", "dial", "status", "spawn"}) => scanBuf[s] = <<>>

\* ------------------------------------------------ failed status-line write
\* writeStatusLine of s has failed at least once
StatusWriteFailed(s) == \E i \in 1..Len(statusLog[s]) : ~statusLog[s][i].ok

\* C13: a failed status-line write is only logged: the handler continues as
\* after a successful write (towards the relay after 200, to its return after
\* an error status), and the connections are still torn down: when the handler
\* has returned, every connection of the session is closed.
C13_FailedStatusWriteNotPropagated ==
  \A s \in Sess :
    StatusWriteFailed(s) =>
      /\ Len(statusLog[s]) = 1
      /\ statusLog[s][1].code = 200 => pc[s] \in {"spawn", "wait", "returned"}
      /\ statusLog[s][1].code # 200 => pc[s] = "returned"
      /\ pc[s] = "returned" =>
           /\ Closed(clientConn[s])
           /\ targetConn[s] # 0 => Closed(targetConn[s])

\* the part of C13 about the path alone
C13_SamePathAfterFailedWrite ==
  \A s \in Sess :
    StatusWriteFailed(s) =>
      /\ statusLog[s][1].code = 200 => pc[s] \in {"spawn", "wait", "returned"}
      /\ statusLog[s][1].code # 200 => pc[s] = "returned"

\* ======================================================================
\* The HTTP client: actions and specifications
\* ======================================================================
\* client := New(opts...)
New ==
  /\ client.state = "none"
  /\ \E opts \in SeqsUpTo(ClientOptions, MaxClientOpts) :
       \E n \in {NewResult(opts, jars)} : client' = n.client /\ jars' = n.jars
  /\ UNCHANGED <<proxyVars, reqs, wire, ret>>

\* req := request.NewRequest(ctx, dstURL, opts...): dstURL with a query of Q,
\* at most n options of Opts
NewRequestAs(rid, Q, Opts, n) ==
  /\ ~reqs[rid].made
  /\ \E q \in Q, opts \in SeqsUpTo(Opts, n) :
       reqs' = [reqs EXCEPT ![rid] = ApplyOptions(BlankRequest(q), opts)]
  /\ UNCHANGED <<proxyVars, client, jars, wire, ret>>

NewRequest(rid) == NewRequestAs(rid, UrlQueries, RequestOptions, MaxOpts)

\* the orders in which the iteration over r.Form may come: it is iterated
\* only for a multipart body
FormOrders(rq) == IF Len(rq.Files) > 0 THEN KeyOrders ELSE {SortedKeys}

\* a call of Do, Fetch or JSON can be made
Callable(rid) == client.state = "ready" /\ reqs[rid].made /\ ret.calls < MaxSends

\* the effects of the Client.Do inside a call
DoEffects(rid, d) ==
  /\ reqs' = [reqs EXCEPT ![rid] = d.rq]
  /\ jars' = d.jars
  /\ wire' = wire \o d.sent
  /\ UNCHANGED <<proxyVars, client>>

\* resp, err := client.Do(req), the server answering with a reply of R
DoAs(rid, R) ==
  /\ Callable(rid)
  /\ \E order \in FormOrders(reqs[rid]), rp \in R :
       \E d \in {DoResult(client, jars, rid, reqs[rid], order, rp)} :
          /\ DoEffects(rid, d)
          /\ ret' = [op |-> "Do", rid |-> rid, err |-> d.err,
                     resp |-> [nil |-> ~d.resp.ok, Raw |-> d.resp, Result |-> NilTarget],
                     result |-> NilTarget, passed |-> NilTarget, calls |-> ret.calls + 1]

Do(rid) == DoAs(rid, Replies)

\* resp, err := client.Fetch(req, result)
Fetch(rid) ==
  /\ Callable(rid)
  /\ \E order \in FormOrders(reqs[rid]), rp \in Replies, result \in FetchTargets :
       \E d \in {DoResult(client, jars, rid, reqs[rid], order, rp)} :
        \E f \in {FetchResult(d, result)} :
          /\ DoEffects(rid, d)
          /\ ret' = [op |-> "Fetch", rid |-> rid, err |-> f.err, resp |-> f.resp,
                     result |-> f.result, passed |-> result, calls |-> ret.calls + 1]

\* resp, err := client.JSON(req, result)
JSON(rid) ==
  /\ Callable(rid)
  /\ \E order \in FormOrders(reqs[rid]), rp \in Replies, result \in JSONTargets :
       \E d \in {DoResult(client, jars, rid, reqs[rid], order, rp)} :
        \E f \in {JSONResult(d, result)} :
          /\ DoEffects(rid, d)
          /\ ret' = [op |-> "JSON", rid |-> rid, err |-> f.err, resp |-> f.resp,
                     result |-> f.result, passed |-> result, calls |-> ret.calls + 1]

\* no request made, no call made, and the client New(opts...) returns
InitClient(opts) ==
  /\ InitProxy
  /\ \E n \in {NewResult(opts, [j \in JarIds |-> <<>>])} : client = n.client /\ jars = n.jars
  /\ reqs = [rid \in ReqIds |-> NoRequest]
  /\ wire = <<>>
  /\ ret = NoReturn

\* Building requests: the client of the test suite, one request made with any
\* options and sent through Do.
SuiteOptions == <<ClientOpt("WithBaseUrl"), ClientOpt("WithTimeout")>>

InitReq == InitClient(SuiteOptions)

DoPlain(rid) == DoAs(rid, PlainReplies)

NextReq ==
  \/ NewRequest(1)
  \/ DoPlain(1)

SpecReq == InitReq /\ [][NextReq]_vars

\* Calls: a client with a base URL and a cookie in its jar, a first request
\* that may carry a cookie and files, a second request without options, and
\* calls of Do, Fetch and JSON with every reply.
CookieClientOptions == <<ClientOpt("WithBaseUrl"), ClientOpt("WithCookies")>>

InitCall == InitClient(CookieClientOptions)

CallOptions ==
  {Opt("AddCookie", "", ""), Opt("SetFile", "file", "test/data/non-existing.txt")}
    \cup {[Opt("SetFileBody", "file", "file.txt") EXCEPT !.body = b] :
            b \in {x \in FileBodies : x.type \in {"string", "int"}}}

NewRequestCall == NewRequestAs(1, {<<>>}, CallOptions, MaxCallOpts)
NewRequestBare == NewRequestAs(2, {<<>>}, {}, 0)

NextCall ==
  \/ NewRequestCall
  \/ NewRequestBare
  \/ \E rid \in ReqIds : Do(rid)
  \/ \E rid \in ReqIds : Fetch(rid)
  \/ \E rid \in ReqIds : JSON(rid)

SpecCall == InitCall /\ [][NextCall]_vars

\* Construction: New with any options in any order, then a request with or
\* without a cookie sent through Do.
NewRequestCookie == NewRequestAs(1, {<<>>}, CookieOptions, 1)

NextNew ==
  \/ New
  \/ NewRequestCookie
  \/ Do(1)

SpecNew == Init /\ [][NextNew]_vars

\* ------------------------------------------------------------- cookies
\* what the jar of the client may hold: the client's cookie, and the cookie
\* of the server once a response has set it
JarContents == {<<ClientCookie>>, <<ClientCookie, ServerCookie>>}

\* the i-th transmitted request is the first transmission of its Request
FirstSend(i) == \A j \in 1..(i - 1) : wire[j].rid # wire[i].rid

\* the Request of the i-th transmitted request was never passed to a call before
FirstCall(i) == FirstSend(i) /\ (ret.calls = Len(wire))

\* C14: when a request carries explicit cookies and the jar of the client
\* holds a cookie of the same name, the transmitted Cookie header is the
\* request's cookies followed by the jar's cookies; a request without explicit
\* cookies carries the jar's cookies alone, and the jar never holds a cookie
\* that was given to a request.
C14_ExplicitThenJar ==
  /\ \A i \in 1..Len(wire) :
       wire[i].Cookie \in {reqs[wire[i].rid].Cookies \o js : js \in JarContents}
  /\ \A j \in JarIds : \A i \in 1..Len(jars[j]) : jars[j][i] # RequestCookie

\* the same for the first call that is made with a Request
C14_ExplicitThenJarOnFirstCall ==
  /\ \A i \in 1..Len(wire) :
       FirstCall(i) =>
         wire[i].Cookie \in {reqs[wire[i].rid].Cookies \o js : js \in JarContents}
  /\ \A j \in JarIds : \A i \in 1..Len(jars[j]) : jars[j][i] # RequestCookie

\* ---------------------------------------------------- failing file fields
\* the step is a call of Do, Fetch or JSON with the Request rid
CallOf(rid) == ret'.calls = ret.calls + 1 /\ ret'.rid = rid

UnreadableSource(f) == f.Source # "" /\ ~Readable(f.Source)
UnsupportedBody(f) == f.Source = "" /\ f.Body.type \notin {"string", "[]byte", "io.Reader"}
FileFails(f) == UnreadableSource(f) \/ UnsupportedBody(f)

\* the first file field of rq whose Write fails (0: none)
FirstFailing(rq) ==
  IF \E i \in 1..Len(rq.Files) : FileFails(rq.Files[i])
    THEN CHOOSE i \in 1..Len(rq.Files) :
           FileFails(rq.Files[i]) /\ \A j \in 1..(i - 1) : ~FileFails(rq.Files[j])
    ELSE 0

\* C15: if writing a file field fails (its Source cannot be read, or its Body
\* is neither string, []byte nor io.Reader, and then the error wraps
\* ErrUnsupportedBodyType), IntoHttpRequest returns that error, Do, Fetch and
\* JSON return it with a nil response, and no HTTP request is sent.
C15_FileErrorReturned ==
  [][\A rid \in ReqIds :
       (CallOf(rid) /\ FirstFailing(reqs[rid]) # 0) =>
         /\ ret'.err # NoErr
         /\ \A order \in KeyOrders : ret'.err = IntoHttpRequest(reqs[rid], order).err
         /\ UnsupportedBody(reqs[rid].Files[FirstFailing(reqs[rid])]) =>
              ErrorsIs(ret'.err, ErrUnsupportedBodyType)
         /\ UnreadableSource(reqs[rid].Files[FirstFailing(reqs[rid])]) =>
              ErrorsIs(ret'.err, ErrNotExist)
         /\ ret'.resp.nil
         /\ wire' = wire]_vars

C15_Witness ==
  /\ ret.op = "JSON"
  /\ Len(reqs[1].Files) = 2
  /\ FirstFailing(reqs[1]) = 2
  /\ ErrorsIs(ret.err, ErrUnsupportedBodyType)
  /\ ret.resp.nil
  /\ wire = <<>>

\* ------------------------------------------- query parameters, form fields
\* what the server reads from the i-th transmitted request
SentQuery(i) == ParseQuery(wire[i].query)

FieldsOf(parts, k) ==
  LET IsField(p) == p.kind = "field" /\ p.name = k
      sel == SelectSeq(parts, IsField)
  IN [n \in 1..Len(sel) |-> sel[n].content]

SentForm(i) ==
  IF wire[i].body.enc = "form" THEN ParseQuery(wire[i].body.text)
  ELSE IF wire[i].body.enc = "multipart" THEN [k \in Keys |-> FieldsOf(wire[i].body.parts, k)]
  ELSE EmptyValues

\* the values of key k after the options opts, said without applying them:
\* the value of the last set option of k (if any), then the values of the add
\* options of k that come after it
ValuesAfter(opts, add, set, k) ==
  LET Sets == {i \in 1..Len(opts) : opts[i].op = set /\ opts[i].k = k}
      from == IF Sets = {} THEN 1 ELSE CHOOSE i \in Sets : \A j \in Sets : j <= i
      Touches(o) == o.op \in {add, set} /\ o.k = k
      sel == SelectSeq(SubSeq(opts, from, Len(opts)), Touches)
  IN [n \in 1..Len(sel) |-> sel[n].v]

\* every sequence of parameter and form options leaves the multimaps the
\* claim describes
OptionsAsDescribed ==
  \A opts \in SeqsUpTo(ParamOptions \cup FormOptions, MaxOpts) :
    \E rq \in {ApplyOptions(BlankRequest(<<>>), opts)} :
      \A k \in Keys :
        /\ rq.Params[k] = ValuesAfter(opts, "AddParam", "SetParam", k)
        /\ rq.Form[k] = ValuesAfter(opts, "AddFormField", "SetFormField", k)

Transmits(rid) == CallOf(rid) /\ Len(wire') = Len(wire) + 1

\* the part a file field is to be sent as
PartOf(f) ==
  [kind |-> "file", name |-> f.Fieldname,
   filename |-> IF f.Source # "" THEN Base(f.Source) ELSE f.Filename,
   content |-> IF f.Source # "" THEN Disk(f.Source) ELSE f.Body.data]

IsFilePart(p) == p.kind = "file"

\* the transmitted request w carries the body the precedence gives for rq
BodyAsChosen(rq, w) ==
  IF Len(rq.Files) > 0
    THEN /\ w.body.enc = "multipart"
         /\ w.ContentType = MultipartContentType
         /\ SelectSeq(w.body.parts, IsFilePart) = [i \in 1..Len(rq.Files) |-> PartOf(rq.Files[i])]
         /\ \A k \in Keys : FieldsOf(w.body.parts, k) = rq.Form[k]
         /\ w.body.text = <<>> /\ w.body.data = ""
  ELSE IF \E k \in Keys : rq.Form[k] # <<>>
    THEN /\ w.body.enc = "form"
         /\ w.ContentType = "application/x-www-form-urlencoded"
         /\ ParseQuery(w.body.text) = rq.Form
         /\ w.body.parts = <<>> /\ w.body.data = ""
  ELSE IF rq.JSON # ""
    THEN /\ w.body.enc = "json"
         /\ w.ContentType = "application/json"
         /\ w.body.data = rq.JSON \o "\n"
         /\ w.body.parts = <<>> /\ w.body.text = <<>>
  ELSE IF rq.Body # ""
    THEN /\ w.body = BodyOf("raw", <<>>, <<>>, rq.Body)
         /\ w.ContentType = ""
  ELSE /\ w.body = NoBodyReader
       /\ w.ContentType = ""

\* C17: IntoHttpRequest chooses exactly one body encoding by the precedence
\* Files (multipart/form-data with every file and every form field), Form
\* (application/x-www-form-urlencoded), JSON (application/json), Body (the raw
\* bytes), none; the Content-Type that is sent is the one of that encoding.
C17_BodyPrecedence ==
  [][\A rid \in ReqIds : Transmits(rid) => BodyAsChosen(reqs[rid], wire'[Len(wire')])]_vars

C17_Witness ==
  /\ Len(wire) = 1
  /\ Len(reqs[1].Files) = 1 /\ reqs[1].Form["k"] # <<>> /\ reqs[1].JSON # ""
  /\ wire[1].body.enc = "multipart"
  /\ Len(wire[1].body.parts) = 2

\* ------------------------------------------------------- Fetch and JSON
\* the last call was op, and the Client.Do inside it succeeded
Returned(op) == ret.op = op /\ ~ret.resp.nil /\ ret.resp.Raw.ok

\* the body of the response the last call received
RawBody == ret.resp.Raw.Body

\* the target that received the body: a new buffer if the caller passed nil
Receiver == IF ret.passed.kind = "nil" THEN [NewBuffer EXCEPT !.data = RawBody] ELSE ret.result

SupportedKinds == {"nil", "io.Writer", "*[]byte", "*string"}

\* C18: Fetch delivers the whole response body to the result target for every
\* supported kind of target: an io.Writer receives it by copy (after what it
\* held), a *[]byte and a *string are set to it, a nil result is replaced by a
\* new buffer that receives it; on success resp.Result is that target and
\* resp.Raw is the HTTP response.
C18_FetchDelivers ==
  (ret.op = "Fetch" /\ ret.err = NoErr /\ ret.passed.kind \in SupportedKinds) =>
     /\ Returned("Fetch")
     /\ ret.resp.Raw.StatusCode = 200 /\ ~ret.resp.Raw.readErr
     /\ ret.resp.Result = Receiver
     /\ ret.passed.kind = "io.Writer" =>
          ret.result = [ret.passed EXCEPT !.data = ret.passed.data \o RawBody]
     /\ ret.passed.kind \in {"*[]byte", "*string"} =>
          ret.result = [ret.passed EXCEPT !.data = RawBody]
     /\ ret.passed.kind = "nil" => ret.result = NilTarget

C18_Witness ==
  /\ ret.op = "Fetch" /\ ret.err = NoErr
  /\ ret.passed = Target("caller", "io.Writer", "bytes", <<"old">>)
  /\ ret.result.data = <<"old">> \o JsonBody
  /\ ret.resp.Result = ret.result

\* the body of the response cannot be decoded into the value that was passed
Undecodable == RawBody # JsonBody \/ ret.resp.Raw.readErr \/ ret.passed.kind # "*struct"

\* C19: JSON returns a non-nil error when the response body cannot be decoded
\* into the result; resp.Result is then unset and resp.Raw is still returned;
\* when result is nil nothing is decoded and no error arises from the body.
C19_JSONDecodeError ==
  Returned("JSON") =>
     /\ (ret.passed.kind # "nil" /\ Undecodable) =>
          ret.err # NoErr /\ ret.resp.Result = NilTarget
     /\ ret.passed.kind = "nil" => ret.err = NoErr /\ ret.resp.Result = NilTarget

C19_Witness ==
  /\ Returned("JSON")
  /\ ret.passed.kind = "*struct" /\ RawBody = TextBody
  /\ ret.err = Err(ErrDecode)
  /\ ret.resp.Result = NilTarget

\* ------------------------------------------------------------ construction
\* C20: New(WithBaseUrl(u), WithCookieJar(j)) without WithHttpClient is
\* constructed without fault and the HTTP client uses j as its cookie jar;
\* New yields a usable client for every order of its options.
C20_NewWithoutFault == client.state # "panic"

\* ======================================================================
\* The relay: completion, half-close, teardown
\* ======================================================================
\* the copy task of direction d has returned from copyIO
Finished(s, d) == task[s][d].pc = "done"

\* the copy task of direction d has returned because io.Copy failed
EndedWithError(s, d) == Finished(s, d) /\ task[s][d].err # ""

CtxVariant(s) == variant[s] = "ctx"

\* C21: in the cancellation variant the wait on ctx.Done() is released as soon
\* as either copy task has finished, by EOF or by an error: the handler then
\* returns; in particular it returns, with both connections closed, when both
\* copy tasks have ended with errors.
C21_EitherEndReleasesWait ==
  /\ \A d \in Dirs : (CtxVariant(1) /\ Finished(1, d)) ~> (pc[1] = "returned")
  /\ (CtxVariant(1) /\ \A d \in Dirs : EndedWithError(1, d))
       ~> (pc[1] = "returned" /\ Closed(clientConn[1]) /\ Closed(targetConn[1]))

\* the part of C21 about an end by EOF
C21_EOFReleasesWait ==
  \A d \in Dirs : (CtxVariant(1) /\ EndedEOF(1, d)) ~> (pc[1] = "returned")

\* ---------------------------------------------------------------- half-close
OtherDir(d) == IF d = "c2t" THEN "t2c" ELSE "c2t"

\* the peer behind connection c has neither closed its sending side nor reset
PeerStillSending(c) == ~peerEOF[c] /\ ~peerRST[c]

\* direction d of s has reached EOF while the peer of the opposite direction
\* has not closed and no connection of the session has failed
HalfClosed(s, d) ==
  /\ EndedEOF(s, d)
  /\ PeerStillSending(task[s][d].dst)
  /\ ~peerRST[task[s][d].src]

\* C22: half-close is respected: when one direction has reached EOF because
\* its source peer stopped sending, the opposite direction stays in service
\* (both connections stay open and its copy task keeps running), so that the
\* bytes the other peer sends afterwards are still delivered, until that peer
\* closes too or an error occurs.
C22_HalfCloseRespected ==
  \A s \in Sess, d \in Dirs :
    HalfClosed(s, d) =>
      /\ connState[task[s][d].dst] = "open"
      /\ connState[task[s][d].src] = "open"
      /\ ~Finished(s, OtherDir(d))

\* ------------------------------------------------------------ no task leak
\* C23: no copy task is leaked: in the WaitGroup variants and in the
\* cancellation variant, once the session-level call has returned after a
\* relay was started, eventually both copy tasks of the session have
\* terminated; none stays blocked in a read or a write.
C23_NoCopyTaskLeaked ==
  (pc[1] = "returned" /\ Started(1)) ~> (\A d \in Dirs : Finished(1, d))

\* the handler of the cancellation variant has returned after an EOF and its
\* Close has ended the other copy task
C23_Witness ==
  /\ CtxVariant(1) /\ pc[1] = "returned"
  /\ \E d \in Dirs : EndedEOF(1, d) /\ Finished(1, OtherDir(d)) /\ task[1][OtherDir(d)].err = ErrClosed

\* ------------------------------------------------------- the two copy tasks
\* the copy tasks of s that have not returned yet
Running(s) == {d \in Dirs : task[s][d].pc \in {"read", "write"}}

\* once started, a session has one copy task per direction, each on the
\* session's two connections, and the counter is the number of tasks that
\* have not signalled yet
TwoTasks ==
  \A s \in Sess :
    /\ Started(s) <=> pc[s] \in {"wait", "returned"} /\ targetConn[s] # 0
    /\ Started(s) =>
         /\ \A d \in Dirs : task[s][d].pc # "none" /\ task[s][d].sig = s
         /\ task[s]["c2t"].src = clientConn[s] /\ task[s]["c2t"].dst = targetConn[s]
         /\ task[s]["t2c"].src = targetConn[s] /\ task[s]["t2c"].dst = clientConn[s]
    /\ ~Started(s) => \A d \in Dirs : task[s][d] = NoTask
    /\ WgVariant(s) =>
         /\ wg[s] \in 0..2
         /\ wg[s] = IF Started(s) THEN Cardinality(Running(s)) ELSE 0
         /\ (pc[s] = "returned" /\ Started(s)) => \A d \in Dirs : Finished(s, d)

\* the counter goes from 0 to 2 when the relay is started and down by one
\* when a task returns, on every path; a task that has returned stays so
SignalsOnce ==
  \A s \in Sess :
    /\ WgVariant(s) =>
         /\ wg'[s] # wg[s] =>
              \/ wg[s] = 0 /\ wg'[s] = 2 /\ pc[s] = "spawn" /\ pc'[s] = "wait"
              \/ wg'[s] = wg[s] - 1 /\ \E d \in Dirs : d \in Running(s) /\ Finished(s, d)'
         /\ \A d \in Dirs : (d \in Running(s) /\ Finished(s, d)') => wg'[s] = wg[s] - 1
         /\ (pc[s] = "wait" /\ pc'[s] = "returned") => \A d \in Dirs : Finished(s, d)
    /\ \A d \in Dirs : Finished(s, d) => task'[s][d] = task[s][d]

\* C24: each tunnel session runs exactly two copy tasks, one per direction; in
\* the WaitGroup variants each task signals completion exactly once on every
\* path (EOF or error): the counter starts at 2, never goes below 0, and the
\* wait returns only after both tasks have finished.
C24_TwoTasksSignalOnce == []TwoTasks /\ [][SignalsOnce]_vars

C24_Witness ==
  /\ WgVariant(1) /\ pc[1] = "returned" /\ wg[1] = 0
  /\ \E d \in Dirs : EndedIOError(1, d) /\ EndedEOF(1, OtherDir(d))

\* ------------------------------------------------------------ teardown once
\* C25 as stated: a tunnel session is torn down exactly once: across the two
\* copy tasks and the handler's cleanup, Close is invoked at most once on the
\* client connection and at most once on the target connection.
C25_CloseInvokedAtMostOnce ==
  \A s \in Sess : \A c \in Owned(s) : closeCalls[c] <= 1

\* the Close calls a connection of s can get: one from the copy task that
\* writes to it (WaitGroup variants, at EOF) and one from the handler (not on
\* the client connection in the raw-socket variant after a relay)
MaxCloseCalls(s, c) ==
  IF CtxVariant(s) \/ ~Started(s) THEN 1
  ELSE IF variant[s] = "raw" /\ c = clientConn[s] THEN 1
  ELSE 2

ClosedOnce ==
  \A s \in Sess : \A c \in Owned(s) :
    /\ closeCalls[c] <= MaxCloseCalls(s, c)
    /\ closeCalls[c] >= 1 <=> connState[c] = "closed"
    /\ closeCalls[c] = 2 => pc[s] = "returned"

\* a closed connection stays closed and its descriptor is not given out again
StaysClosed ==
  \A c \in Conns : connState[c] = "closed" => connState'[c] = "closed"

\* C25 amended: every connection of a session is closed at most once, by the
\* first Close invoked on it, and stays closed; Close can be invoked a second
\* time on a connection, by the handler's cleanup after a copy task that ended
\* at EOF has closed it (WaitGroup variants), and that call changes nothing;
\* in the cancellation variant Close is invoked at most once per connection.
C25_ClosedOnceCloseCalledTwice == []ClosedOnce /\ [][StaysClosed]_vars

C25_Witness ==
  /\ variant[1] = "http" /\ pc[1] = "returned" /\ Started(1)
  /\ closeCalls[targetConn[1]] = 2 /\ closeCalls[clientConn[1]] = 1

\* --------------------------------------------------- the ResponseWriter
\* what a handler may have written through the ResponseWriter
NoResponseAfterHijack ==
  \A s \in Sess :
    /\ hijacked[s] => rwLog[s] = <<>>
    /\ rwLog[s] \in {<<>>, <<405>>, <<500>>}
    /\ rwLog[s] = <<405>> => r[s].method # MethodConnect
    /\ rwLog[s] = <<500>> => r[s].method = MethodConnect
    /\ rwLog[s] # <<>> =>
         /\ variant[s] \in HandlerVariants
         /\ pc[s] = "returned" /\ statusLog[s] = <<>> /\ dials[s] = 0
    /\ (variant[s] \in HandlerVariants /\ statusLog[s] # <<>>) => hijacked[s]

\* Hijack is not undone, and nothing is written through the ResponseWriter
\* once it has succeeded
HijackIsFinal ==
  \A s \in Sess : hijacked[s] => (hijacked'[s] /\ rwLog'[s] = rwLog[s])

\* C26: in the handler-based variants, once the raw connection has been
\* obtained by a successful Hijack, the handler never writes through the
\* ResponseWriter again on any path (dial failure, dial success, relay end):
\* all later output goes through the raw connection; the ResponseWriter is
\* used only for the 405 reply and for a failed Hijack.
C26_NoResponseWriterAfterHijack == []NoResponseAfterHijack /\ [][HijackIsFinal]_vars

C26_Witness ==
  /\ variant[1] \in HandlerVariants /\ hijacked[1] /\ pc[1] = "returned"
  /\ Started(1) /\ Codes(statusLog[1]) = <<200>> /\ rwLog[1] = <<>>

\* ------------------------------------------ a failed read of the request line
\* readRequestLine of s has returned an error
ReadFailed(s) == variant[s] = "raw" /\ rerr[s] # "" /\ pc[s] # "readline"

\* C27: in the raw-socket variant, when reading the request line fails with an
\* error, ProxyConnectHandle writes a 500 status line, closes the client
\* connection and returns without dialing, and it does so without
\* dereferencing an absent request line (it does not fault).
C27_ReadErrorAnswered ==
  \A s \in Sess :
    ReadFailed(s) =>
      /\ pc[s] \in {"parsed", "returned"}
      /\ dials[s] = 0 /\ targetConn[s] = 0
      /\ pc[s] = "returned" => (Codes(statusLog[s]) = <<500>> /\ Closed(clientConn[s]))

\* the part of C27 for an error that comes with a line
C27_ReadErrorWithLineAnswered ==
  \A s \in Sess :
    (ReadFailed(s) /\ r[s] # NoReq) =>
      /\ pc[s] \in {"parsed", "returned"}
      /\ dials[s] = 0 /\ targetConn[s] = 0
      /\ pc[s] = "returned" => (Codes(statusLog[s]) = <<500>> /\ Closed(clientConn[s]))

\* ======================================================================
\* The HTTP client: timeout, repeated conversion, client headers
\* ======================================================================
\* WithTimeout was among the options of New (otherwise New sets the default)
TimeoutGiven == client.timeout = TestTimeout

\* C28: after New(WithTimeout(t)) with t > 0 the timeout of the underlying
\* HTTP client equals t; without WithTimeout it equals the one-minute
\* default, whether or not WithHttpClient supplied the HTTP client.
C28_TimeoutApplied ==
  client.state = "ready" =>
    /\ client.timeout \in {TestTimeout, defaultTimeout}
    /\ client.c.Timeout = IF TimeoutGiven THEN TestTimeout ELSE defaultTimeout

\* the part of C28 without WithTimeout
C28_DefaultTimeoutApplied ==
  (client.state = "ready" /\ ~TimeoutGiven) =>
    (client.timeout = defaultTimeout /\ client.c.Timeout = defaultTimeout)

\* -------------------------------------------------------- repeated conversion
\* the requests that were transmitted for the Request rid, in order
SentFor(rid) == SelectSeq(wire, LAMBDA w : w.rid = rid)

\* C29: IntoHttpRequest is repeatable: converting the same Request twice (by
\* passing it to Client.Do twice) produces the same URL, the same headers and
\* the same Cookie header both times; the conversion does not accumulate
\* state in the Request.
C29_ConversionRepeatable ==
  \A rid \in ReqIds :
    \A i \in 1..Len(SentFor(rid)) :
      /\ SentFor(rid)[i].query = SentFor(rid)[1].query
      /\ SentFor(rid)[i].ContentType = SentFor(rid)[1].ContentType
      /\ SentFor(rid)[i].Cookie = SentFor(rid)[1].Cookie

\* the part of C29 about the URL and the Content-Type
C29_SameUrlAndContentType ==
  \A rid \in ReqIds :
    \A i \in 1..Len(SentFor(rid)) :
      /\ SentFor(rid)[i].query = SentFor(rid)[1].query
      /\ SentFor(rid)[i].ContentType = SentFor(rid)[1].ContentType

\* ------------------------------------------------------------ client headers
\* the names of the headers of a transmitted request
HeaderNames(w) ==
  (IF w.ContentType # "" THEN {"Content-Type"} ELSE {})
    \cup (IF w.Cookie # <<>> THEN {"Cookie"} ELSE {})

\* C30: the headers configured on the client with WithHeader / WithHeaders
\* are present on every request sent through Client.Do, in addition to the
\* request's own headers.
C30_ClientHeadersSent ==
  \A i \in 1..Len(wire) : client.header \subseteq HeaderNames(wire[i])

====
